---------------------------- MODULE Spec2Model ----------------------------
(***************************************************************************)
(* Model of the key-custody, request-authentication and relay core of      *)
(* quantish-server: KeyVault (AES-256-GCM envelope encryption), the HMAC   *)
(* signer/verifier and RelayerClient.relay.                                *)
(*                                                                         *)
(* Byte buffers are sequences over 0..255, strings are sequences of        *)
(* character codes (UTF-16 code units for plaintexts, ASCII codes for      *)
(* base64/hex text).  The cryptographic primitives are idealised: the GCM  *)
(* tag and HMAC-SHA256 are collision-free functions of their inputs.       *)
(***************************************************************************)
EXTENDS Integers, Sequences, FiniteSets, TLC

VARIABLES
    vaults,     \* KeyVault instances: construction outcome and masterKey
    blob,       \* the EncryptedData in flight (as stored / transported)
    origin,     \* what encrypt() was called with and what it returned
    out,        \* outcome of the last decrypt() call
    hm,         \* HMAC exchange: signer input, signature string, verifier view
    calls,      \* RelayerClient.relay() invocations, one record per call
    posts,      \* number of POSTs issued to {endpoint}/relay, per call
    wire,       \* the request bodies POSTed to {endpoint}/relay
    clock,      \* the time of the process running the RelayerClient, in ms
    client,     \* the RelayerClient instance: its timeout field
    chain,      \* the addresses that hold bytecode (provider.getCode # '0x')
    db,         \* the database adapter: its kind, its maps or tables
    keys,       \* what generateApiKey returned to its callers
    ret,        \* what the last adapter or server operation returned
    addr        \* address derivations: inputs and the addresses returned

vars == <<vaults, blob, origin, out, hm, calls, posts, wire, clock, client, chain, db,
          keys, ret, addr>>

(***************************************************************************)
(* Bytes and bits                                                          *)
(***************************************************************************)
RECURSIVE BitXor(_, _)
BitXor(a, b) ==
    IF a = 0 THEN b
    ELSE IF b = 0 THEN a
    ELSE (((a % 2) + (b % 2)) % 2) + (2 * BitXor(a \div 2, b \div 2))

Pow2(k) == 2 ^ k

\* flip bit k (0 = least significant) of an 8-bit value
FlipBit(c, k) == BitXor(c, Pow2(k))

\* sum of s[lo..hi]
RECURSIVE SumRange(_, _, _)
SumRange(s, lo, hi) ==
    IF lo > hi THEN 0
    ELSE IF lo = hi THEN s[lo]
    ELSE SumRange(s, lo, (lo + hi) \div 2) + SumRange(s, ((lo + hi) \div 2) + 1, hi)

SumSeq(s) == SumRange(s, 1, Len(s))

(***************************************************************************)
(* base64, as Node's Buffer implements it                                  *)
(***************************************************************************)
PadChar == 61   \* '='

\* 6-bit value -> character of the standard alphabet
B64Char(v) ==
    IF v < 26 THEN 65 + v
    ELSE IF v < 52 THEN 97 + (v - 26)
    ELSE IF v < 62 THEN 48 + (v - 52)
    ELSE IF v = 62 THEN 43
    ELSE 47

\* character -> 6-bit value, or -1 for a character outside the alphabets
\* (the decoder accepts the URL-safe '-' and '_' as well)
unbase64(c) ==
    IF c >= 65 /\ c <= 90 THEN c - 65
    ELSE IF c >= 97 /\ c <= 122 THEN c - 97 + 26
    ELSE IF c >= 48 /\ c <= 57 THEN c - 48 + 52
    ELSE IF c = 43 \/ c = 45 THEN 62
    ELSE IF c = 47 \/ c = 95 THEN 63
    ELSE -1

ByteAt(b, i) == IF i <= Len(b) THEN b[i] ELSE 0

\* character j of the encoding of b: group g covers bytes 3g+1 .. 3g+3
B64EncodedChar(b, j) ==
    LET g == (j - 1) \div 4
        k == (j - 1) % 4
        b1 == ByteAt(b, (3 * g) + 1)
        b2 == ByteAt(b, (3 * g) + 2)
        b3 == ByteAt(b, (3 * g) + 3)
    IN  IF k = 0 THEN B64Char(b1 \div 4)
        ELSE IF k = 1 THEN B64Char(((b1 % 4) * 16) + (b2 \div 16))
        ELSE IF k = 2 THEN
            IF (3 * g) + 2 > Len(b) THEN PadChar
            ELSE B64Char(((b2 % 16) * 4) + (b3 \div 64))
        ELSE IF (3 * g) + 3 > Len(b) THEN PadChar ELSE B64Char(b3 % 64)

\* buf.toString('base64')
Base64Encode(b) == [j \in 1..(4 * ((Len(b) + 2) \div 3)) |-> B64EncodedChar(b, j)]

MinOf(S) == CHOOSE x \in S : \A y \in S : x <= y

\* the 6-bit values the decoder reads: decoding stops at the first '=' and
\* illegal characters are skipped
B64Values(s) ==
    LET pads == {i \in 1..Len(s) : s[i] = PadChar}
        upto == IF pads = {} THEN Len(s) ELSE MinOf(pads) - 1
        IsLegal(c) == unbase64(c) >= 0
        legal == SelectSeq(SubSeq(s, 1, upto), IsLegal)
    IN  [i \in 1..Len(legal) |-> unbase64(legal[i])]

\* byte j of the decoding of the 6-bit values v; a trailing group of two
\* values gives one byte, of three values two bytes, a single value none
B64DecodedByte(v, j) ==
    LET g == (j - 1) \div 3
        k == (j - 1) % 3
        v1 == v[(4 * g) + 1]
        v2 == v[(4 * g) + 2]
    IN  IF k = 0 THEN (v1 * 4) + (v2 \div 16)
        ELSE IF k = 1 THEN ((v2 % 16) * 16) + (v[(4 * g) + 3] \div 4)
        ELSE ((v[(4 * g) + 3] % 4) * 64) + v[(4 * g) + 4]

B64Bytes(v) ==
    LET rem == Len(v) % 4
        n == (3 * (Len(v) \div 4)) + (IF rem = 2 THEN 1 ELSE IF rem = 3 THEN 2 ELSE 0)
    IN  [j \in 1..n |-> B64DecodedByte(v, j)]

\* Buffer.from(s, 'base64')
Base64Decode(s) == B64Bytes(B64Values(s))

(***************************************************************************)
(* hex                                                                     *)
(***************************************************************************)
IsHexChar(c) ==
    \/ c >= 48 /\ c <= 57
    \/ c >= 97 /\ c <= 102
    \/ c >= 65 /\ c <= 70

HexVal(c) ==
    IF c >= 48 /\ c <= 57 THEN c - 48
    ELSE IF c >= 97 /\ c <= 102 THEN c - 97 + 10
    ELSE c - 65 + 10

HexChar(v) == IF v < 10 THEN 48 + v ELSE 97 + (v - 10)

\* buf.toString('hex')
HexEncode(b) ==
    [j \in 1..(2 * Len(b)) |->
        IF j % 2 = 1 THEN HexChar(b[(j + 1) \div 2] \div 16)
        ELSE HexChar(b[j \div 2] % 16)]

\* Buffer.from(s, 'hex') on a string of hex digits
HexDecode(s) ==
    [j \in 1..(Len(s) \div 2) |-> (HexVal(s[(2 * j) - 1]) * 16) + HexVal(s[2 * j])]

(***************************************************************************)
(* UTF-8, as Node encodes a JavaScript string and decodes a Buffer         *)
(***************************************************************************)
IsHighSurrogate(u) == u >= 55296 /\ u <= 56319
IsLowSurrogate(u) == u >= 56320 /\ u <= 57343
ReplacementChar == <<239, 191, 189>>   \* U+FFFD

Utf8OfCodePoint(cp) ==
    IF cp < 128 THEN <<cp>>
    ELSE IF cp < 2048 THEN << 192 + (cp \div 64), 128 + (cp % 64) >>
    ELSE IF cp < 65536 THEN
        << 224 + (cp \div 4096), 128 + ((cp \div 64) % 64), 128 + (cp % 64) >>
    ELSE
        << 240 + (cp \div 262144), 128 + ((cp \div 4096) % 64),
           128 + ((cp \div 64) % 64), 128 + (cp % 64) >>

\* string (UTF-16 code units) -> bytes; an unpaired surrogate is written as U+FFFD
RECURSIVE Utf8Encode(_)
Utf8Encode(s) ==
    IF s = <<>> THEN <<>>
    ELSE IF IsHighSurrogate(s[1]) /\ Len(s) >= 2 /\ IsLowSurrogate(s[2]) THEN
        Utf8OfCodePoint(65536 + (s[1] - 55296) * 1024 + (s[2] - 56320))
            \o Utf8Encode(SubSeq(s, 3, Len(s)))
    ELSE IF IsHighSurrogate(s[1]) \/ IsLowSurrogate(s[1]) THEN
        ReplacementChar \o Utf8Encode(Tail(s))
    ELSE Utf8OfCodePoint(s[1]) \o Utf8Encode(Tail(s))

IsCont(b, i) == i <= Len(b) /\ b[i] >= 128 /\ b[i] <= 191

Utf16OfCodePoint(cp) ==
    IF cp < 65536 THEN <<cp>>
    ELSE << 55296 + ((cp - 65536) \div 1024), 56320 + ((cp - 65536) % 1024) >>

\* bytes -> string; a byte that starts no well-formed sequence becomes U+FFFD
RECURSIVE Utf8Decode(_)
Utf8Decode(b) ==
    IF b = <<>> THEN <<>>
    ELSE IF b[1] < 128 THEN <<b[1]>> \o Utf8Decode(Tail(b))
    ELSE IF b[1] >= 194 /\ b[1] <= 223 /\ IsCont(b, 2) THEN
        << (b[1] - 192) * 64 + (b[2] - 128) >> \o Utf8Decode(SubSeq(b, 3, Len(b)))
    ELSE IF b[1] >= 224 /\ b[1] <= 239 /\ IsCont(b, 2) /\ IsCont(b, 3)
            /\ (b[1] - 224) * 4096 + (b[2] - 128) * 64 + (b[3] - 128) >= 2048
            /\ ~ ( (b[1] - 224) * 4096 + (b[2] - 128) * 64 + (b[3] - 128) >= 55296
                   /\ (b[1] - 224) * 4096 + (b[2] - 128) * 64 + (b[3] - 128) <= 57343 ) THEN
        << (b[1] - 224) * 4096 + (b[2] - 128) * 64 + (b[3] - 128) >>
            \o Utf8Decode(SubSeq(b, 4, Len(b)))
    ELSE IF b[1] >= 240 /\ b[1] <= 244 /\ IsCont(b, 2) /\ IsCont(b, 3) /\ IsCont(b, 4)
            /\ (b[1] - 240) * 262144 + (b[2] - 128) * 4096
                 + (b[3] - 128) * 64 + (b[4] - 128) >= 65536
            /\ (b[1] - 240) * 262144 + (b[2] - 128) * 4096
                 + (b[3] - 128) * 64 + (b[4] - 128) <= 1114111 THEN
        Utf16OfCodePoint((b[1] - 240) * 262144 + (b[2] - 128) * 4096
                          + (b[3] - 128) * 64 + (b[4] - 128))
            \o Utf8Decode(SubSeq(b, 5, Len(b)))
    ELSE <<65533>> \o Utf8Decode(Tail(b))


(***************************************************************************)
(* KeyVault                                                                *)
(***************************************************************************)
MasterKeyLength == 32
IvLength == 16
AuthTagLength == 16

VaultIds == {1, 2}

\* bounds of the enumerated inputs
NumKeys == 1
NumIvs == 2
MaxPlainLen == 2

KeyBytes(n) == [i \in 1..MasterKeyLength |-> (n * 37 + i * 11) % 256]

\* code units plaintexts are drawn from: 'A', U+00E9, and the two halves of
\* the surrogate pair of U+1F600
PlainUnits == {65, 233, 55357, 56832}

RECURSIVE StringsUpTo(_, _)
StringsUpTo(S, n) ==
    IF n = 0 THEN {<<>>}
    ELSE LET shorter == StringsUpTo(S, n - 1)
         IN  shorter \cup {Append(s, u) : s \in {t \in shorter : Len(t) = n - 1}, u \in S}

Plaintexts == StringsUpTo(PlainUnits, MaxPlainLen)

\* crypto.randomBytes(ivLength): any value may come out, also one drawn before
RandomIvs == {[i \in 1..IvLength |-> (n * 53 + i) % 256] : n \in 1..NumIvs}

DropLast(s) == SubSeq(s, 1, Len(s) - 1)

\* replace the character at position i
SetAt(s, i, c) == [s EXCEPT ![i] = c]

BufferInput(b) == [kind |-> "buffer", bytes |-> b]
StringInput(s) == [kind |-> "string", chars |-> s]

\* values handed to the constructor as config.masterKey
KeyInputs ==
    {BufferInput(KeyBytes(n)) : n \in 1..NumKeys}
    \cup {StringInput(HexEncode(KeyBytes(n))) : n \in 1..NumKeys}
    \cup {StringInput(Base64Encode(KeyBytes(n))) : n \in 1..NumKeys}
    \cup { BufferInput(<<>>),
           BufferInput(DropLast(KeyBytes(1))),
           BufferInput(Append(KeyBytes(1), 7)),
           StringInput(<<>>),
           \* base64 without its padding
           StringInput(DropLast(Base64Encode(KeyBytes(1)))),
           \* 62 and 66 hex digits
           StringInput(HexEncode(DropLast(KeyBytes(1)))),
           StringInput(HexEncode(Append(KeyBytes(1), 7))),
           \* 64 characters, one of them ('g') no hex digit
           StringInput(SetAt(HexEncode(KeyBytes(1)), 5, 103)),
           StringInput(Base64Encode(DropLast(KeyBytes(1)))),
           StringInput(Base64Encode(Append(KeyBytes(1), 7))),
           [kind |-> "other"],
           [kind |-> "missing"] }

\* the keys a second vault is built from
PeerInputs ==
    { StringInput(HexEncode(KeyBytes(1))),
      StringInput(Base64Encode(KeyBytes(1))),
      BufferInput(KeyBytes(NumKeys + 1)),
      StringInput(Base64Encode(DropLast(KeyBytes(NumKeys + 1)))) }

AllHex(s) == \A i \in 1..Len(s) : IsHexChar(s[i])

Thrown(msg) == [threw |-> TRUE, error |-> msg]
Returned(v) == [threw |-> FALSE, value |-> v]

\* KeyVault.parseKey; /^[0-9a-fA-F]+$/ needs at least one character
parseKey(key) ==
    IF Len(key) > 0 /\ AllHex(key) /\ Len(key) = 2 * MasterKeyLength
    THEN Returned(HexDecode(key))
    ELSE IF Len(Base64Decode(key)) = MasterKeyLength
    THEN Returned(Base64Decode(key))
    ELSE Thrown("Master key must be 32 bytes as hex (64 chars) or base64 (44 chars)")

\* the constructor without its length check
ValidateKeyLengthSkipped(k) == Returned(k)

\* the constructor's length validation
ValidateKeyLength(k) ==
    IF Len(k) # MasterKeyLength
    THEN Thrown("Master key must be 32 bytes (256 bits)")
    ELSE Returned(k)

\* new KeyVault(config): the masterKey it holds, or the error thrown
NewKeyVault(input) ==
    IF input.kind = "missing" THEN Thrown("masterKey is required")
    ELSE IF input.kind = "buffer" THEN ValidateKeyLength(input.bytes)
    ELSE IF input.kind = "string" THEN
        LET parsed == parseKey(input.chars)
        IN  IF parsed.threw THEN parsed ELSE ValidateKeyLength(parsed.value)
    ELSE Thrown("masterKey must be a Buffer or string")

(* AES-256-GCM, idealised.  The cipher is a stream cipher: byte i of the     *)
(* output is byte i of the input xor a keystream byte fixed by key, iv and *)
(* position.  The tag is an ideal MAC of (key, iv, ciphertext).            *)
KeyStream(key, iv, i) ==
    (SumSeq(key) + (3 * SumSeq(iv)) + (5 * Len(iv)) + (7 * i) + 1) % 256

\* cipher.update / decipher.update on the whole input
GcmUpdate(key, iv, data) ==
    [i \in 1..Len(data) |-> BitXor(data[i], KeyStream(key, iv, i))]

GcmTag(key, iv, ct) == [len |-> AuthTagLength, mac |-> <<key, iv, ct>>]

\* StringDecoder('base64'): write() emits whole 3-byte groups, end() the rest
DecoderWrite(b) == Base64Encode(SubSeq(b, 1, 3 * (Len(b) \div 3)))
DecoderEnd(b) == Base64Encode(SubSeq(b, (3 * (Len(b) \div 3)) + 1, Len(b)))

\* encrypt that forgets to append cipher.final('base64')
encryptWithoutFinal(key, plaintext, iv) ==
    LET ct == GcmUpdate(key, iv, Utf8Encode(plaintext))
    IN  [ encrypted |-> DecoderWrite(ct),
          iv |-> Base64Encode(iv),
          authTag |-> GcmTag(key, iv, ct) ]

\* KeyVault.encrypt with the iv randomBytes returned
encrypt(key, plaintext, iv) ==
    LET ct == GcmUpdate(key, iv, Utf8Encode(plaintext))
    IN  [ encrypted |-> DecoderWrite(ct) \o DecoderEnd(ct),
          iv |-> Base64Encode(iv),
          authTag |-> GcmTag(key, iv, ct) ]

\* decipher.final(): throws unless the tag set is the tag of what was processed
FinalVerifies(key, iv, ct, tag) == tag.mac = <<key, iv, ct>>

\* decrypt that returns what update() gave without calling final()
decryptWithoutFinal(key, data) ==
    LET iv == Base64Decode(data.iv)
        encrypted == Base64Decode(data.encrypted)
    IN  IF Len(iv) = 0 THEN Thrown("Invalid initialization vector")
        ELSE Returned(Utf8Decode(GcmUpdate(key, iv, encrypted)))

\* KeyVault.decrypt
decrypt(key, data) ==
    LET iv == Base64Decode(data.iv)
        authTag == data.authTag
        encrypted == Base64Decode(data.encrypted)
    IN  IF Len(iv) = 0 THEN Thrown("Invalid initialization vector")
        ELSE IF authTag.len # AuthTagLength THEN Thrown("Invalid authentication tag length")
        ELSE LET decrypted == GcmUpdate(key, iv, encrypted)
             IN  IF ~FinalVerifies(key, iv, encrypted, authTag)
                 THEN Thrown("Unsupported state or unable to authenticate data")
                 ELSE Returned(Utf8Decode(decrypted))

NoVault == [state |-> "none"]
NoBlob == [present |-> FALSE]
NoOut == [by |-> 0]

VaultOk(v) == vaults[v].state = "ok"

\* the constructor's exception is not caught: the process that asked for the
\* vault ends with it
Running == \A v \in VaultIds : vaults[v].state # "failed"

\* new KeyVault({masterKey: input}) for vault slot v; vaults are built at
\* start-up (createServer), before any blob is handled
Construct(v, input) ==
    /\ Running
    /\ ~blob.present
    /\ vaults[v].state = "none"
    /\ LET r == NewKeyVault(input)
       IN  vaults' = [vaults EXCEPT ![v] =
                IF r.threw
                THEN [state |-> "failed", input |-> input, error |-> r.error]
                ELSE [state |-> "ok", input |-> input, masterKey |-> r.value]]
    /\ UNCHANGED <<blob, origin, out, hm, calls, posts, wire, clock, client, chain, db, keys, ret, addr>>

\* vault v encrypts p; the blob is handed to storage
Encrypt(v, p, iv) ==
    /\ Running
    /\ VaultOk(v)
    /\ ~blob.present
    /\ LET e == encrypt(vaults[v].masterKey, p, iv)
       IN  /\ blob' = [present |-> TRUE, data |-> e]
           /\ origin' = [vault |-> v, plaintext |-> p, data |-> e]
    /\ out' = NoOut
    /\ UNCHANGED <<vaults, hm, calls, posts, wire, clock, client, chain, db, keys, ret, addr>>

\* what a party with write access to the stored blob can turn it into
TamperedBlobs(d) ==
    LET iv == Base64Decode(d.iv)
        ct == Base64Decode(d.encrypted)
    IN  { [d EXCEPT !.authTag = [len |-> AuthTagLength, mac |-> <<"forged">>]],
          [d EXCEPT !.authTag = [len |-> AuthTagLength - 1, mac |-> d.authTag.mac]],
          [d EXCEPT !.encrypted =
              IF Len(ct) = 0 THEN Base64Encode(<<0>>)
              ELSE Base64Encode(SetAt(ct, Len(ct), FlipBit(ct[Len(ct)], 7)))],
          [d EXCEPT !.iv = Base64Encode(SetAt(iv, 1, FlipBit(iv[1], 0)))],
          [d EXCEPT !.iv = <<>>] }

Tamperings ==
    IF blob.present /\ blob.data = origin.data THEN TamperedBlobs(blob.data) ELSE {}

Tamper(t) ==
    /\ Running
    /\ blob.present
    /\ blob.data = origin.data
    /\ out = NoOut
    /\ blob' = [blob EXCEPT !.data = t]
    /\ UNCHANGED <<vaults, origin, out, hm, calls, posts, wire, clock, client, chain, db, keys, ret, addr>>

\* vault v decrypts the blob in storage
Decrypt(v) ==
    /\ Running
    /\ VaultOk(v)
    /\ blob.present
    /\ out = NoOut
    /\ LET r == decrypt(vaults[v].masterKey, blob.data)
       IN  out' = [by |-> v, threw |-> r.threw,
                   value |-> IF r.threw THEN <<>> ELSE r.value]
    /\ UNCHANGED <<vaults, blob, origin, hm, calls, posts, wire, clock, client, chain, db, keys, ret, addr>>

\* the blob and the result are dropped; the vaults live on
Forget ==
    /\ Running
    /\ blob.present
    /\ out # NoOut
    /\ blob' = NoBlob
    /\ origin' = NoBlob
    /\ out' = NoOut
    /\ UNCHANGED <<vaults, hm, calls, posts, wire, clock, client, chain, db, keys, ret, addr>>

HmIdle == [pc |-> "idle"]
NoCalls == <<>>
NoClient == [constructed |-> FALSE]
NoDb == [kind |-> "none"]
NoRet == [op |-> "none"]
NoAddr == <<>>

VaultInit ==
    /\ vaults = [v \in VaultIds |-> NoVault]
    /\ blob = NoBlob
    /\ origin = NoBlob
    /\ out = NoOut
    /\ hm = HmIdle
    /\ calls = NoCalls
    /\ posts = <<>>
    /\ wire = {}
    /\ clock = 0
    /\ client = NoClient
    /\ chain = {}
    /\ db = NoDb
    /\ keys = {}
    /\ ret = NoRet
    /\ addr = NoAddr

VaultNext ==
    \/ \E input \in KeyInputs : Construct(1, input)
    \/ \E input \in PeerInputs : Construct(2, input)
    \/ \E v \in VaultIds, p \in Plaintexts, iv \in RandomIvs : Encrypt(v, p, iv)
    \/ \E t \in Tamperings : Tamper(t)
    \/ \E v \in VaultIds : Decrypt(v)
    \/ Forget

VaultSpec == VaultInit /\ [][VaultNext]_vars


(***************************************************************************)
(* HMAC signer / verifier                                                  *)
(***************************************************************************)
\* a JavaScript number: an integer or NaN
NaN == [nan |-> TRUE]
Num(n) == [nan |-> FALSE, v |-> n]

NumSub(a, b) == IF a.nan \/ b.nan THEN NaN ELSE Num(a.v - b.v)
MathAbs(a) == IF a.nan THEN NaN ELSE Num(IF a.v < 0 THEN 0 - a.v ELSE a.v)
\* a > b; every comparison with NaN is false
NumGreater(a, b) == ~a.nan /\ ~b.nan /\ a.v > b.v
\* `${n}`
NumToString(a) == IF a.nan THEN "NaN" ELSE ToString(a.v)

DefaultValidityWindowSeconds == 30
DigestLength == 32

\* Date.now() at the verifier
NowMs == 100000

SignedOffsets == {-30001, -30000, -1, 0, 30000, 30001}
Timestamps == {NaN} \cup {Num(NowMs + d) : d \in SignedOffsets}
WindowSeconds == {0, DefaultValidityWindowSeconds}

Methods == {"GET", "POST"}
Paths == {"/v1/a", "/v1/b"}
Secrets == {"s1", "s2"}

\* request bodies: absent, or an object with its JSON text
Undefined == [t |-> "undefined"]
JsonObject(text) == [t |-> "object", json |-> text]
Bodies == {Undefined, JsonObject("{\"a\":1}"), JsonObject("{}")}

\* the other values a body of type unknown can be
Null == [t |-> "null"]
Boolean(b) == [t |-> "boolean", bool |-> b]
Number(n) == [t |-> "number", num |-> n]
String(str) == [t |-> "string", str |-> str]

\* ToBoolean(body)
Truthy(body) ==
    CASE body.t = "object" -> TRUE
      [] body.t = "boolean" -> body.bool
      [] body.t = "number" -> body.num # 0
      [] body.t = "string" -> body.str # ""
      [] OTHER -> FALSE

\* JSON.stringify(body) of a body that is not undefined
JsonStringify(body) ==
    CASE body.t = "object" -> body.json
      [] body.t = "boolean" -> IF body.bool THEN "true" ELSE "false"
      [] body.t = "number" -> ToString(body.num)
      [] body.t = "string" -> "\"" \o body.str \o "\""
      [] OTHER -> "null"

\* the message createHmacSignature signs
CanonicalMessage(input) ==
    LET bodyString == IF Truthy(input.body) THEN JsonStringify(input.body) ELSE ""
    IN  NumToString(input.timestamp) \o input.method \o input.path \o bodyString

Envelope(ts, m, p, b) == [timestamp |-> ts, method |-> m, path |-> p, body |-> b]

Envelopes == {Envelope(ts, m, p, b) : ts \in Timestamps, m \in Methods, p \in Paths, b \in Bodies}

\* numbering of the (secret, message) pairs of the model
TimestampCode(ts) == IF ts.nan THEN 0 ELSE ts.v - (NowMs - 30001) + 1
EnvelopeCode(e) ==
    (((TimestampCode(e.timestamp) * 2 + (IF e.method = "GET" THEN 0 ELSE 1)) * 2
        + (IF e.path = "/v1/a" THEN 0 ELSE 1)) * 4)
        + (IF e.body = Undefined THEN 0 ELSE IF e.body.json = "{}" THEN 1 ELSE 2)
MessageCode(msg) == MinOf({EnvelopeCode(e) : e \in {x \in Envelopes : CanonicalMessage(x) = msg}})
SecretCode(secret) == IF secret = "s1" THEN 1 ELSE 2

\* crypto.createHmac('sha256', secret).update(message).digest(): 32 bytes,
\* idealised as an injective function of (secret, message)
HmacSha256(secret, message) ==
    LET n == (MessageCode(message) * 2) + SecretCode(secret)
    IN  [i \in 1..DigestLength |->
            IF i = 1 THEN n % 256
            ELSE IF i = 2 THEN (n \div 256) % 256
            ELSE IF i = 3 THEN (n \div 65536) % 256
            ELSE ((n * (i + 3)) + (i * 13)) % 256]

\* createHmacSignature(input): input carries the secret
createHmacSignature(input) ==
    Base64Encode(HmacSha256(input.secret, CanonicalMessage(input)))

WithSecret(input, secret) ==
    [timestamp |-> input.timestamp, method |-> input.method, path |-> input.path,
     body |-> input.body, secret |-> secret]

Invalid(reason) == [valid |-> FALSE, reason |-> reason]
Valid == [valid |-> TRUE, reason |-> "none"]

\* a comparison that always reports equality
timingSafeEqualAlwaysTrue(a, b) == TRUE

\* crypto.timingSafeEqual on buffers of equal length
timingSafeEqual(a, b) == a = b

\* the signature checks of verifyHmacSignature, after the timestamp check
CheckSignature(signature, input, secret) ==
    LET expectedSignature == createHmacSignature(WithSecret(input, secret))
        signatureBuffer == Base64Decode(signature)
        expectedBuffer == Base64Decode(expectedSignature)
    IN  IF Len(signatureBuffer) # Len(expectedBuffer)
        THEN Invalid("Invalid signature length")
        ELSE IF ~timingSafeEqual(signatureBuffer, expectedBuffer)
        THEN Invalid("Signature mismatch")
        ELSE Valid

\* the timestamp check with >= for >
ExpiredAtBoundary(now, timestamp, validityWindowSeconds) ==
    NumGreater(MathAbs(NumSub(Num(now), timestamp)), Num((validityWindowSeconds * 1000) - 1))

\* the timestamp check of verifyHmacSignature
Expired(now, timestamp, validityWindowSeconds) ==
    NumGreater(MathAbs(NumSub(Num(now), timestamp)), Num(validityWindowSeconds * 1000))

\* verifyHmacSignature that looks at the signature before the timestamp
verifySignatureFirst(signature, input, secret, validityWindowSeconds, now) ==
    IF ~CheckSignature(signature, input, secret).valid
    THEN CheckSignature(signature, input, secret)
    ELSE IF Expired(now, input.timestamp, validityWindowSeconds)
    THEN Invalid("Request timestamp expired")
    ELSE Valid

\* the verifications made so far of the captured request
ReplayLog == IF "log" \in DOMAIN hm THEN hm.log ELSE <<>>

\* a verifier that remembers what it accepted and accepts a signature once
verifyHmacSignatureOnce(signature, input, secret, validityWindowSeconds, now) ==
    IF \E i \in DOMAIN ReplayLog : ReplayLog[i].res.valid
    THEN Invalid("Signature already used")
    ELSE IF Expired(now, input.timestamp, validityWindowSeconds)
    THEN Invalid("Request timestamp expired")
    ELSE CheckSignature(signature, input, secret)

\* verifyHmacSignature(signature, input, secret, validityWindowSeconds) at time now
verifyHmacSignature(signature, input, secret, validityWindowSeconds, now) ==
    IF Expired(now, input.timestamp, validityWindowSeconds)
    THEN Invalid("Request timestamp expired")
    ELSE CheckSignature(signature, input, secret)

(* The middleware's reading of X-Quantish-Timestamp.                       *)
AbsentHeader == [absent |-> TRUE]
Header(chars) == [absent |-> FALSE, chars |-> chars]

IsDigit(c) == c >= 48 /\ c <= 57
IsSpace(c) == c = 32 \/ c = 9 \/ c = 10 \/ c = 13

\* n >= 0 in decimal, as character codes
RECURSIVE DecimalChars(_)
DecimalChars(n) ==
    IF n < 10 THEN <<48 + n>> ELSE Append(DecimalChars(n \div 10), 48 + (n % 10))

\* value of the longest run of digits at the head of s, given the value so far
RECURSIVE DigitsValue(_, _)
DigitsValue(s, acc) ==
    IF s = <<>> \/ ~IsDigit(Head(s)) THEN acc
    ELSE DigitsValue(Tail(s), (acc * 10) + (Head(s) - 48))

RECURSIVE SkipSpace(_)
SkipSpace(s) == IF s # <<>> /\ IsSpace(Head(s)) THEN SkipSpace(Tail(s)) ELSE s

\* parseInt(header, 10); an absent header is the value undefined
parseInt(h) ==
    IF h.absent THEN NaN
    ELSE LET t == SkipSpace(h.chars)
             negative == t # <<>> /\ Head(t) = 45
             u == IF t # <<>> /\ (Head(t) = 45 \/ Head(t) = 43) THEN Tail(t) ELSE t
         IN  IF u = <<>> \/ ~IsDigit(Head(u)) THEN NaN
             ELSE Num(IF negative THEN 0 - DigitsValue(u, 0) ELSE DigitsValue(u, 0))

TimestampHeaders ==
    { AbsentHeader, Header(<<>>), Header(<<97, 98, 99>>),
      Header(DecimalChars(NowMs) \o <<109, 115>>) }
    \cup {Header(DecimalChars(NowMs + d)) : d \in SignedOffsets}

\* what a client signs
SignerEnvelopes ==
    {Envelope(ts, m, "/v1/a", b) : ts \in Timestamps, m \in Methods,
                                   b \in {Undefined, JsonObject("{\"a\":1}")}}
SignerSecret == "s1"

NoChange == [kind |-> "none", pos |-> 0, bit |-> 0]

\* the signature text with bit `bit` of character `pos` flipped
FlipCharBit(sig, pos, bit) == SetAt(sig, pos, FlipBit(sig[pos], bit))

\* the base64 text of the signature bytes with one bit of byte `pos` flipped
FlipByteBit(sig, pos, bit) ==
    LET bytes == Base64Decode(sig)
    IN  Base64Encode(SetAt(bytes, pos, FlipBit(bytes[pos], bit)))

\* what reaches the verifier: the signed request as it is, or with one bit of
\* the signature flipped, or with one part of the envelope or the secret replaced
Presentations(input, sig) ==
    LET e == Envelope(input.timestamp, input.method, input.path, input.body)
        P(sg, env, sec, ch) == [signature |-> sg, input |-> env, secret |-> sec, change |-> ch]
    IN  {P(sig, e, input.secret, NoChange)}
        \cup {P(FlipCharBit(sig, pos, bit), e, input.secret,
                [kind |-> "char", pos |-> pos, bit |-> bit]) :
                    pos \in 1..Len(sig), bit \in 0..7}
        \cup {P(FlipByteBit(sig, pos, bit), e, input.secret,
                [kind |-> "byte", pos |-> pos, bit |-> bit]) :
                    pos \in 1..DigestLength, bit \in 0..7}
        \cup {P(sig, [e EXCEPT !.timestamp = ts], input.secret,
                [kind |-> "timestamp", pos |-> 0, bit |-> 0]) :
                    ts \in Timestamps \ {e.timestamp}}
        \cup {P(sig, [e EXCEPT !.method = m], input.secret,
                [kind |-> "method", pos |-> 0, bit |-> 0]) : m \in Methods \ {e.method}}
        \cup {P(sig, [e EXCEPT !.path = q], input.secret,
                [kind |-> "path", pos |-> 0, bit |-> 0]) : q \in Paths \ {e.path}}
        \cup {P(sig, [e EXCEPT !.body = b], input.secret,
                [kind |-> "body", pos |-> 0, bit |-> 0]) : b \in Bodies \ {e.body}}
        \cup {P(sig, e, sec, [kind |-> "secret", pos |-> 0, bit |-> 0]) :
                    sec \in Secrets \ {input.secret}}

\* a client computes the signature of an envelope
Sign(e, secret) ==
    /\ hm.pc = "idle"
    /\ LET input == WithSecret(e, secret)
       IN  hm' = [pc |-> "signed", input |-> input, sig |-> createHmacSignature(input)]
    /\ UNCHANGED <<vaults, blob, origin, out, calls, posts, wire, clock, client, chain, db, keys, ret, addr>>

\* verifyHmacSignature is called on what was presented
VerifyDirect(p, window) ==
    /\ hm.pc = "signed"
    /\ hm' = [pc |-> "verified", input |-> hm.input, sig |-> hm.sig,
              via |-> "direct", presented |-> p, window |-> window,
              res |-> verifyHmacSignature(p.signature, p.input, p.secret, window, NowMs)]
    /\ UNCHANGED <<vaults, blob, origin, out, calls, posts, wire, clock, client, chain, db, keys, ret, addr>>

\* the call the authentication middleware makes: the timestamp is parsed from
\* the header, the window is the default
MiddlewareVerify(header) ==
    /\ hm.pc = "signed"
    /\ LET p == [signature |-> hm.sig,
                 input |-> Envelope(parseInt(header), hm.input.method,
                                    hm.input.path, hm.input.body),
                 secret |-> hm.input.secret,
                 change |-> [kind |-> "header", pos |-> 0, bit |-> 0]]
       IN  hm' = [pc |-> "verified", input |-> hm.input, sig |-> hm.sig,
                  via |-> "middleware", presented |-> p,
                  window |-> DefaultValidityWindowSeconds,
                  res |-> verifyHmacSignature(p.signature, p.input, p.secret,
                                              DefaultValidityWindowSeconds, NowMs)]
    /\ UNCHANGED <<vaults, blob, origin, out, calls, posts, wire, clock, client, chain, db, keys, ret, addr>>

HmacReset ==
    /\ hm.pc = "verified"
    /\ hm' = HmIdle
    /\ UNCHANGED <<vaults, blob, origin, out, calls, posts, wire, clock, client, chain, db, keys, ret, addr>>

HmacInit ==
    /\ vaults = [v \in VaultIds |-> NoVault]
    /\ blob = NoBlob
    /\ origin = NoBlob
    /\ out = NoOut
    /\ hm = HmIdle
    /\ calls = NoCalls
    /\ posts = <<>>
    /\ wire = {}
    /\ clock = 0
    /\ client = NoClient
    /\ chain = {}
    /\ db = NoDb
    /\ keys = {}
    /\ ret = NoRet
    /\ addr = NoAddr

SignedPresentations ==
    IF hm.pc = "signed" THEN Presentations(hm.input, hm.sig) ELSE {}

HmacNext ==
    \/ \E e \in SignerEnvelopes : Sign(e, SignerSecret)
    \/ \E p \in SignedPresentations, w \in WindowSeconds : VerifyDirect(p, w)
    \/ \E h \in TimestampHeaders : MiddlewareVerify(h)
    \/ HmacReset

HmacSpec == HmacInit /\ [][HmacNext]_vars

(* A captured signed request, presented again and again as time passes.    *)
MaxReplays == 2
\* milliseconds after NowMs at which the request is presented
ReplayInstants == {1, 30000, 30001}

\* a signed request is captured on the wire
Capture(e, secret) ==
    /\ hm.pc = "idle"
    /\ LET input == WithSecret(e, secret)
       IN  hm' = [pc |-> "captured", input |-> input,
                  sig |-> createHmacSignature(input), log |-> <<>>]
    /\ UNCHANGED <<vaults, blob, origin, out, calls, posts, wire, clock, client, chain, db, keys, ret, addr>>

\* the captured request is presented: verifyHmacSignature runs at Date.now()
Replay(window) ==
    /\ hm.pc = "captured"
    /\ Len(hm.log) < MaxReplays
    /\ LET now == NowMs + clock
           e == Envelope(hm.input.timestamp, hm.input.method, hm.input.path, hm.input.body)
       IN  hm' = [hm EXCEPT !.log =
                     Append(@, [at |-> now, window |-> window,
                                res |-> verifyHmacSignature(hm.sig, e, hm.input.secret,
                                                            window, now)])]
    /\ UNCHANGED <<vaults, blob, origin, out, calls, posts, wire, clock, client, chain, db, keys, ret, addr>>

\* time passes at the verifier
Advance(t) ==
    /\ t > clock
    /\ clock' = t
    /\ UNCHANGED <<vaults, blob, origin, out, hm, calls, posts, wire, client, chain, db, keys, ret, addr>>

ReplayNext ==
    \/ \E e \in SignerEnvelopes : Capture(e, SignerSecret)
    \/ \E w \in WindowSeconds : Replay(w)
    \/ \E t \in ReplayInstants : Advance(t)

ReplaySpec == HmacInit /\ [][ReplayNext]_vars

(* The messages of requests that differ in one part.                       *)
MaxSigned == 2
WirePaths == {"/v1/a", "/v1/a1"}
WireBodies ==
    {Undefined, Null, Boolean(FALSE), Number(0), String(""), Number(1),
     JsonObject("{}")}
WireEnvelopes ==
    {Envelope(Num(NowMs), m, p, b) : m \in Methods, p \in WirePaths, b \in WireBodies}

\* the envelopes whose message was formed so far
Signed == IF "signed" \in DOMAIN hm THEN hm.signed ELSE <<>>

\* lines 22-26 of createHmacSignature: the message of an envelope is formed
FormMessage(e) ==
    /\ Len(Signed) < MaxSigned
    /\ hm' = [pc |-> "signing",
              signed |-> Append(Signed, [input |-> e, message |-> CanonicalMessage(e)])]
    /\ UNCHANGED <<vaults, blob, origin, out, calls, posts, wire, clock, client, chain, db, keys, ret, addr>>

MessageNext == \E e \in WireEnvelopes : FormMessage(e)

MessageSpec == HmacInit /\ [][MessageNext]_vars

(***************************************************************************)
(* RelayerClient.relay                                                     *)
(***************************************************************************)
\* number of relay() calls made on the client
NumCalls == 2
CallIds == 1..NumCalls

\* an optional field of a JavaScript object
None == [some |-> FALSE]
Some(x) == [some |-> TRUE, v |-> x]

\* ToBoolean of an optional string: undefined and "" are falsy
TruthyString(o) == o.some /\ o.v # ""

\* a || b
OrElse(a, b) == IF TruthyString(a) THEN a ELSE b

\* the timeout a client uses when none is configured
DefaultTimeout == 30000
\* the largest timeout configured explicitly, and the last instant reached by
\* unit steps of the clock
MaxTimeout == 2
LastTick == 3
\* config.timeout: undefined, 0, or a number of milliseconds
ConfigTimeouts == {None, Some(0)} \cup {Some(t) : t \in 2..MaxTimeout}
\* ToBoolean of an optional number
TruthyNumber(o) == o.some /\ o.v # 0

\* lines 25-28: the constructor
NewRelayerClient(config) ==
    [constructed |-> TRUE, config |-> config,
     timeout |-> IF TruthyNumber(config.timeout) THEN config.timeout.v
                 ELSE DefaultTimeout]

\* the accounts served: an EOA, its Safe, and the owner's signature
Accounts == {"a1", "a2"}
Eoa(a) == "0xE" \o a
Safe(a) == "0x5" \o a
SafeProxyFactory == "0xaacFeEa03eb1561C4e67d661e40682Bd20E3541b"
UsdcAddress == "0x2791Bca1f2de4661ED88A30C99A7a9449Aa84174"

\* SafeTransaction; a value JSON.stringify throws on stands for a request
\* that cannot be serialised (a BigInt field, a cyclic object)
SafeTransaction(from, to, proxyWallet, data, signature) ==
    [from |-> from, to |-> to, proxyWallet |-> proxyWallet, data |-> data,
     signature |-> signature]
Unserializable == [from |-> "0xE", to |-> "0x0", proxyWallet |-> "0x5",
                   data |-> "BigInt", signature |-> "0xsig"]
Serializable(tx) == tx # Unserializable

\* lines 80-86: the transaction deploySafe builds
DeploySafeTransaction(params) ==
    SafeTransaction(params.ownerAddress, params.proxyFactory, params.proxyWallet,
                    "0x", params.signature)
\* lines 101-107: the transaction executeTransaction builds
ExecuteTransaction(params) ==
    SafeTransaction(params.ownerAddress, params.to, params.safeAddress,
                    params.data, params.signature)

DeployParams(a) ==
    [ownerAddress |-> Eoa(a), proxyWallet |-> Safe(a),
     proxyFactory |-> SafeProxyFactory, signature |-> "0xsig"]
ExecuteParams(a) ==
    [safeAddress |-> Safe(a), to |-> UsdcAddress, data |-> "0x095ea7b3",
     ownerAddress |-> Eoa(a), signature |-> "0xsig"]

\* part_002 lines 119-125: provider.getCode(address) !== '0x'
getCode(address) == IF address \in chain THEN "0x6080" ELSE "0x"
isContractDeployed(address) == getCode(address) # "0x"

HttpStatuses == {200, 404, 500}
\* response.ok
ResponseOk(status) == status >= 200 /\ status <= 299

TextBodies == {"", "boom"}

\* what response.json() can give: a parse failure, null, or an object with
\* its txHash and transactionHash members
ParseFailure == [kind |-> "syntax-error"]
JsonNull == [kind |-> "null"]
JsonResult(txHash, transactionHash) ==
    [kind |-> "object", txHash |-> txHash, transactionHash |-> transactionHash]
HashValues == {None, Some(""), Some("0xh1"), Some("0xh2")}
JsonBodies ==
    {ParseFailure, JsonNull} \cup {JsonResult(a, b) : a \in HashValues, b \in HashValues}

\* RelayerResponse
RelayerResponse(success, txHash, error) ==
    [success |-> success, txHash |-> txHash, error |-> error]
Failure(message) == RelayerResponse(FALSE, None, Some(message))

\* the text of a non-2xx result with the status left out
ErrorTextWithoutStatus(status, text) == "Relayer error: " \o text

\* line 53: the template literal
ErrorText(status, text) ==
    "Relayer error: " \o ToString(status) \o " - " \o text

\* lines 49-55: the non-2xx branch, given the text of the body
ErrorResponse(status, text) == Returned(Failure(ErrorText(status, text)))

\* lines 57-62: the 2xx branch, given what response.json() gave
SuccessResponse(json) ==
    IF json.kind = "syntax-error" THEN Thrown("Unexpected token in JSON")
    ELSE IF json.kind = "null" THEN Thrown("Cannot read properties of null")
    ELSE Returned(RelayerResponse(TRUE, OrElse(json.txHash, json.transactionHash), None))

\* a relay() whose catch block lets the error through
RethrowingCatch(attempt) == attempt

\* lines 63-68: the catch block around the whole body
Catch(attempt) ==
    IF attempt.threw THEN Returned(Failure(attempt.error)) ELSE attempt

\* the promise relay() returned, once the body of relay() ran to `attempt`
Settle(attempt) ==
    LET r == Catch(attempt)
    IN  IF r.threw
        THEN [state |-> "rejected", reason |-> r.error]
        ELSE [state |-> "resolved", value |-> r.value]

AbortMessage == "This operation was aborted"

\* a timer: not created, armed with the instant it is due, cleared or fired
NoTimer == [state |-> "none", due |-> 0]
Cleared == [state |-> "cleared", due |-> 0]
Fired == [state |-> "fired", due |-> 0]

NotStarted ==
    [pc |-> "idle", timer |-> NoTimer, startedAt |-> 0, aborted |-> FALSE,
     status |-> 0, text |-> None, promise |-> [state |-> "none"]]

\* relay() returns: its promise settles.  The record of a call that is over
\* keeps its result; when it began no longer matters
Finish(c, attempt) ==
    calls' = [calls EXCEPT ![c].pc = "done", ![c].startedAt = 0,
                           ![c].promise = Settle(attempt)]

\* a timer whose callback is never run
setTimeoutNever(delay) == NoTimer

\* line 36: setTimeout(() => controller.abort(), this.timeout)
setTimeout(delay) == [state |-> "armed", due |-> clock + delay]

\* a relay() that sends its request a second time
relayWithRetry(c, transaction) ==
    /\ client.constructed
    /\ calls[c].pc = "idle"
    /\ Serializable(transaction)
    /\ calls' = [calls EXCEPT ![c].pc = "fetching", ![c].startedAt = clock,
                              ![c].timer = setTimeout(client.timeout)]
    /\ posts' = [posts EXCEPT ![c] = @ + 2]
    /\ wire' = wire \cup {transaction}
    /\ UNCHANGED <<vaults, blob, origin, out, hm, clock, client, chain, db, keys, ret, addr>>

\* lines 33-45: relay(transaction) is called: the controller and the timer
\* are created, the request is serialised and handed to fetch
relay(c, transaction) ==
    /\ client.constructed
    /\ calls[c].pc = "idle"
    /\ IF Serializable(transaction)
       THEN /\ calls' = [calls EXCEPT ![c].pc = "fetching",
                                      ![c].startedAt = clock,
                                      ![c].timer = setTimeout(client.timeout)]
            /\ posts' = [posts EXCEPT ![c] = @ + 1]
            /\ wire' = wire \cup {transaction}
       ELSE /\ calls' = [calls EXCEPT ![c].pc = "done",
                            ![c].timer = setTimeout(client.timeout),
                            ![c].promise = Settle(Thrown("Do not know how to serialize"))]
            /\ UNCHANGED <<posts, wire>>
    /\ UNCHANGED <<vaults, blob, origin, out, hm, clock, client, chain, db, keys, ret, addr>>

\* new RelayerClient(config)
Construct_RelayerClient(config) ==
    /\ ~client.constructed
    /\ client' = NewRelayerClient(config)
    /\ UNCHANGED <<vaults, blob, origin, out, hm, calls, posts, wire, clock, chain, db, keys, ret, addr>>

\* relay(transaction), called directly
RelayStart(c, transaction) == relay(c, transaction)

\* lines 74-89: deploySafe(params)
deploySafe(c, params) == relay(c, DeploySafeTransaction(params))

\* lines 94-110: executeTransaction(params)
executeTransaction(c, params) == relay(c, ExecuteTransaction(params))

\* fetch rejects: no connection, DNS failure, reset before the headers
NetworkFailure(c) ==
    /\ calls[c].pc = "fetching"
    /\ Finish(c, Thrown("fetch failed"))
    /\ UNCHANGED <<vaults, blob, origin, out, hm, posts, wire, clock, client, chain, db, keys, ret, addr>>

\* the armed timers that are due
Due(c) == calls[c].timer.state = "armed" /\ calls[c].timer.due <= clock

\* a call after an abort signal reached it: a pending fetch rejects
Aborted(call) ==
    IF call.pc = "fetching"
    THEN [call EXCEPT !.aborted = TRUE, !.pc = "done", !.startedAt = 0,
                      !.promise = Settle(Thrown(AbortMessage))]
    ELSE [call EXCEPT !.aborted = TRUE]

\* one AbortController held by the client and handed to every fetch
abortShared(c) ==
    [d \in CallIds |->
        IF d = c THEN [Aborted(calls[d]) EXCEPT !.timer = Fired]
        ELSE IF calls[d].pc = "fetching" THEN Aborted(calls[d])
        ELSE calls[d]]

\* lines 34-36: controller is a local of the call; its abort() reaches the
\* fetch of that call only
abort(c) ==
    [calls EXCEPT ![c] = [Aborted(calls[c]) EXCEPT !.timer = Fired]]

\* the timeout callback runs controller.abort()
TimerFires(c) ==
    /\ Due(c)
    /\ calls' = abort(c)
    /\ UNCHANGED <<vaults, blob, origin, out, hm, posts, wire, clock, client, chain, db, keys, ret, addr>>

\* lines 38-47: fetch resolves with the response headers; clearTimeout(timeoutId)
Headers(c, status) ==
    /\ calls[c].pc = "fetching"
    /\ calls' = [calls EXCEPT ![c].pc = IF ResponseOk(status) THEN "json" ELSE "text",
                              ![c].status = status,
                              ![c].timer = Cleared]
    /\ UNCHANGED <<vaults, blob, origin, out, hm, posts, wire, clock, client, chain, db, keys, ret, addr>>

\* response.text() resolves
TextRead(c, text) ==
    /\ calls[c].pc = "text"
    /\ calls' = [calls EXCEPT ![c].pc = "done", ![c].startedAt = 0,
                              ![c].text = Some(text),
                              ![c].promise = Settle(ErrorResponse(calls[c].status, text))]
    /\ UNCHANGED <<vaults, blob, origin, out, hm, posts, wire, clock, client, chain, db, keys, ret, addr>>

\* response.json() settles
JsonRead(c, json) ==
    /\ calls[c].pc = "json"
    /\ Finish(c, SuccessResponse(json))
    /\ UNCHANGED <<vaults, blob, origin, out, hm, posts, wire, clock, client, chain, db, keys, ret, addr>>

\* reading the body fails
BodyReadFails(c) ==
    /\ calls[c].pc \in {"text", "json"}
    /\ Finish(c, Thrown("terminated"))
    /\ UNCHANGED <<vaults, blob, origin, out, hm, posts, wire, clock, client, chain, db, keys, ret, addr>>

\* the instants at which an armed timer is due
Deadlines == {calls[c].timer.due : c \in {d \in CallIds : calls[d].timer.state = "armed"}}

\* the instants the clock can move to: the next millisecond, or the instant
\* an armed timer is due
NextInstants == {t \in {clock + 1} : clock < LastTick} \cup Deadlines

\* time passes; a timer that is due runs before the clock moves past it
Tick(t) ==
    /\ t > clock
    /\ \A d \in Deadlines : d >= t
    /\ clock' = t
    /\ UNCHANGED <<vaults, blob, origin, out, hm, calls, posts, wire, client, chain, db, keys, ret, addr>>

\* one account has its Safe deployed already, the other has not
DeployedAccount == "a1"
FreshAccount == "a2"

RelayInit ==
    /\ vaults = [v \in VaultIds |-> NoVault]
    /\ blob = NoBlob
    /\ origin = NoBlob
    /\ out = NoOut
    /\ hm = HmIdle
    /\ calls = [c \in CallIds |-> NotStarted]
    /\ posts = [c \in CallIds |-> 0]
    /\ wire = {}
    /\ clock = 0
    /\ client = NoClient
    /\ chain = {Safe(DeployedAccount)}
    /\ db = NoDb
    /\ keys = {}
    /\ ret = NoRet
    /\ addr = NoAddr

\* the calls proceed with time moving from one timer's instant to the next
RelayNext ==
    \/ \E config \in [timeout : ConfigTimeouts] : Construct_RelayerClient(config)
    \/ \E c \in CallIds : RelayStart(c, Unserializable)
    \/ \E c \in CallIds, a \in Accounts : deploySafe(c, DeployParams(a))
    \/ \E c \in CallIds : executeTransaction(c, ExecuteParams(FreshAccount))
    \/ \E c \in CallIds : NetworkFailure(c)
    \/ \E c \in CallIds : TimerFires(c)
    \/ \E c \in CallIds, st \in HttpStatuses : Headers(c, st)
    \/ \E c \in CallIds, text \in TextBodies : TextRead(c, text)
    \/ \E c \in CallIds, json \in JsonBodies : JsonRead(c, json)
    \/ \E c \in CallIds : BodyReadFails(c)
    \/ \E t \in Deadlines : Tick(t)

RelaySpec == RelayInit /\ [][RelayNext]_vars

\* the calls whose timing is followed millisecond by millisecond
NumTimedCalls == 1
TimedCallIds == 1..NumTimedCalls

TimedNext ==
    \/ \E config \in [timeout : ConfigTimeouts] : Construct_RelayerClient(config)
    \/ \E c \in TimedCallIds : executeTransaction(c, ExecuteParams(FreshAccount))
    \/ \E c \in TimedCallIds : NetworkFailure(c)
    \/ \E c \in TimedCallIds : TimerFires(c)
    \/ \E c \in TimedCallIds, st \in HttpStatuses : Headers(c, st)
    \/ \E c \in TimedCallIds, text \in TextBodies : TextRead(c, text)
    \/ \E c \in TimedCallIds, json \in JsonBodies : JsonRead(c, json)
    \/ \E c \in TimedCallIds : BodyReadFails(c)
    \/ \E t \in NextInstants : Tick(t)

TimedSpec == RelayInit /\ [][TimedNext]_vars

(***************************************************************************)
(* API keys: generateApiKey and hashApiKey                                 *)
(***************************************************************************)
\* the text f[lo] f[lo+1] ... f[hi]
RECURSIVE JoinRange(_, _, _)
JoinRange(f, lo, hi) ==
    IF lo > hi THEN ""
    ELSE IF lo = hi THEN f[lo]
    ELSE JoinRange(f, lo, (lo + hi) \div 2) \o JoinRange(f, ((lo + hi) \div 2) + 1, hi)

\* String.prototype.substring(start, end) for 0 <= start <= end
substring(str, start, end) == SubSeq(str, start + 1, MinOf({end, Len(str)}))

Base64UrlAlphabet == "ABCDEFGHIJKLMNOPQRSTUVWXYZabcdefghijklmnopqrstuvwxyz0123456789-_"
HexDigits == "0123456789abcdef"

ByteOrZero(b, i) == IF i <= Len(b) THEN b[i] ELSE 0

\* the j-th 6-bit group of the bytes b
Sextet(b, j) ==
    LET g == (j - 1) \div 4
        k == (j - 1) % 4
        triple == (ByteOrZero(b, (3 * g) + 1) * 65536)
                    + (ByteOrZero(b, (3 * g) + 2) * 256)
                    + ByteOrZero(b, (3 * g) + 3)
    IN  (triple \div (64 ^ (3 - k))) % 64

\* buf.toString('base64url'): the URL-safe alphabet, no padding
Base64Url(b) ==
    LET n == ((4 * Len(b)) + 2) \div 3
    IN  JoinRange([j \in 1..n |-> SubSeq(Base64UrlAlphabet, Sextet(b, j) + 1,
                                         Sextet(b, j) + 1)], 1, n)

\* buf.toString('hex'), as text
HexText(b) ==
    JoinRange([j \in 1..(2 * Len(b)) |->
                  LET v == IF j % 2 = 1 THEN b[(j + 1) \div 2] \div 16
                           ELSE b[j \div 2] % 16
                  IN  SubSeq(HexDigits, v + 1, v + 1)], 1, 2 * Len(b))

\* crypto.randomBytes(24)
ApiKeyRandomLength == 24
KeyPrefixLength == 12
NumRandomKeys == 1
RandomKeyBytes(n) == [i \in 1..ApiKeyRandomLength |-> ((n * 71) + (i * 5)) % 256]

\* the prefixes generateApiKey is called with: none (the default applies),
\* "qnt", the empty prefix, and one longer than the 12 characters displayed
KeyPrefixes == <<"qnt", "", "quantish_live">>
PrefixArguments == {None} \cup {Some(KeyPrefixes[i]) : i \in 1..Len(KeyPrefixes)}

\* every key generateApiKey can return here, in a fixed order
KeyTable ==
    [n \in 1..(Len(KeyPrefixes) * NumRandomKeys) |->
        KeyPrefixes[((n - 1) \div NumRandomKeys) + 1] \o "_"
            \o Base64Url(RandomKeyBytes(((n - 1) % NumRandomKeys) + 1))]

\* a number for each text that is hashed: its place in the table, and beyond
\* the table for any other text
TextCode(str) ==
    IF \E n \in DOMAIN KeyTable : KeyTable[n] = str
    THEN CHOOSE n \in DOMAIN KeyTable : KeyTable[n] = str
    ELSE Len(KeyTable) + 1 + Len(str)

\* a digest that is the text itself
Sha256HexIdentity(str) == str

\* crypto.createHash('sha256').update(str).digest('hex'): 64 hex digits,
\* idealised as an injective function of the text
Sha256Hex(str) ==
    LET n == TextCode(str)
    IN  HexText([i \in 1..DigestLength |->
                    IF i = 1 THEN n % 256
                    ELSE IF i = 2 THEN (n \div 256) % 256
                    ELSE ((n * (i + 5)) + (i * 17)) % 256])

\* a generateApiKey that hashes the random part only
generateApiKeyHashingRandomPart(prefix, random) ==
    LET p == IF prefix.some THEN prefix.v ELSE "qnt"
        key == p \o "_" \o Base64Url(random)
    IN  [key |-> key, keyPrefix |-> substring(key, 0, KeyPrefixLength),
         keyHash |-> Sha256Hex(Base64Url(random))]

\* hmac.ts lines 116-127: generateApiKey(prefix = 'qnt'), random being what
\* crypto.randomBytes(24) gave
generateApiKey(prefix, random) ==
    LET p == IF prefix.some THEN prefix.v ELSE "qnt"
        randomPart == Base64Url(random)
        key == p \o "_" \o randomPart
        keyPrefix == substring(key, 0, KeyPrefixLength)
        keyHash == Sha256Hex(key)
    IN  [key |-> key, keyPrefix |-> keyPrefix, keyHash |-> keyHash]

\* hmac.ts lines 132-134
hashApiKey(key) == Sha256Hex(key)

(***************************************************************************)
(* The database adapters: InMemoryAdapter and PostgresAdapter              *)
(***************************************************************************)
\* the number of users and of API key records an adapter is given
MaxUsers == 2
MaxApiKeys == 1
\* the number of API key records createApiKey is asked to store
MaxKeyRecords == 2

\* a Map: a function on the keys it holds
EmptyMap == [k \in {} |-> None]
MapSet(m, k, v) == [x \in (DOMAIN m) \cup {k} |-> IF x = k THEN v ELSE m[x]]
\* m.get(k) || null
MapGet(m, k) == IF k \in DOMAIN m THEN Some(m[k]) ELSE None

\* { ...a, ...b }
Spread(a, b) ==
    [f \in (DOMAIN a) \cup (DOMAIN b) |-> IF f \in DOMAIN b THEN b[f] ELSE a[f]]

\* new Date()
NewDate == Some(clock)

\* crypto.randomUUID(), and the ids the database generates: never one that
\* is in use
FreshId(letter, m) == letter \o ToString(Cardinality(DOMAIN m) + 1)

\* CreateUserInput for an account: the EncryptedBlob of its private key
CreateUserInput(a) ==
    [externalId |-> "ext-" \o a, eoaAddress |-> Eoa(a),
     encryptedPrivateKey |-> "ct-" \o a, keyIv |-> "iv-" \o a,
     keyAuthTag |-> "tag-" \o a]
CreateUserInputs == {CreateUserInput(a) : a \in Accounts}

\* Partial<User>: the updates the wallet setup makes, one field at a time
UserPatches ==
    {[safeAddress |-> Some(Safe(DeployedAccount))],
     [safeDeployed |-> TRUE],
     [clobApiKeyCreated |-> TRUE],
     [approvalsGranted |-> TRUE]}

NewInMemoryAdapter ==
    [kind |-> "memory", connected |-> TRUE, users |-> EmptyMap,
     usersByExternalId |-> EmptyMap, apiKeys |-> EmptyMap, apiKeysByHash |-> EmptyMap]

\* the tables behind the Prisma client: user and userApiKey
NewPostgresAdapter ==
    [kind |-> "postgres", connected |-> TRUE, user |-> EmptyMap, userApiKey |-> EmptyMap]

\* the outcome of an adapter method: the adapter afterwards, and what the
\* promise it returned settled to
Outcome(adapter, result) == [db |-> adapter, result |-> result]

\* part_000 lines 118-133
InMemoryAdapter_createUser(a, data) ==
    LET user == [id |-> FreshId("u", a.users),
                 externalId |-> data.externalId,
                 eoaAddress |-> data.eoaAddress,
                 safeAddress |-> None,
                 safeDeployed |-> FALSE,
                 clobApiKeyCreated |-> FALSE,
                 approvalsGranted |-> FALSE,
                 createdAt |-> NewDate,
                 updatedAt |-> NewDate]
    IN  Outcome([a EXCEPT !.users = MapSet(@, user.id, user),
                          !.usersByExternalId = MapSet(@, user.externalId, user)],
                Returned(Some(user)))

\* part_000 lines 135-137
InMemoryAdapter_getUserById(a, id) == Outcome(a, Returned(MapGet(a.users, id)))

\* part_000 lines 139-141
InMemoryAdapter_getUserByExternalId(a, externalId) ==
    Outcome(a, Returned(MapGet(a.usersByExternalId, externalId)))

\* part_000 lines 143-150
InMemoryAdapter_updateUser(a, id, data) ==
    IF ~MapGet(a.users, id).some THEN Outcome(a, Thrown("User not found"))
    ELSE LET updated == [Spread(a.users[id], data) EXCEPT !.updatedAt = NewDate]
         IN  Outcome([a EXCEPT !.users = MapSet(@, id, updated),
                               !.usersByExternalId = MapSet(@, updated.externalId, updated)],
                     Returned(Some(updated)))

\* part_000 lines 153-171; apiKeysByHash holds the object apiKeys holds
InMemoryAdapter_createApiKey(a, userId, data) ==
    LET user == MapGet(a.users, userId)
        apiKey == [id |-> FreshId("k", a.apiKeys),
                   userId |-> userId,
                   name |-> data.name,
                   keyPrefix |-> data.keyPrefix,
                   createdAt |-> NewDate,
                   lastUsedAt |-> None,
                   revokedAt |-> None,
                   user |-> user.v,
                   apiSecret |-> data.apiSecret]
    IN  IF ~user.some THEN Outcome(a, Thrown("User not found"))
        ELSE Outcome([a EXCEPT !.apiKeys = MapSet(@, apiKey.id, apiKey),
                               !.apiKeysByHash = MapSet(@, data.keyHash, apiKey.id)],
                     Returned(Some(apiKey)))

\* part_000 lines 173-175
InMemoryAdapter_getApiKeyByHash(a, hash) ==
    Outcome(a, Returned(IF hash \in DOMAIN a.apiKeysByHash
                        THEN Some(a.apiKeys[a.apiKeysByHash[hash]])
                        ELSE None))

\* part_000 lines 177-182
InMemoryAdapter_revokeApiKey(a, id) ==
    IF id \in DOMAIN a.apiKeys
    THEN Outcome([a EXCEPT !.apiKeys[id].revokedAt = NewDate], Returned(None))
    ELSE Outcome(a, Returned(None))

\* the rows of a table that hold value v in column f
RowsWhere(table, f, v) == {id \in DOMAIN table : table[id][f] = v}

\* postgres.ts lines 84-94: prisma.user.create; the columns left out take
\* their defaults, externalId is unique
PostgresAdapter_createUser(a, data) ==
    LET row == [id |-> FreshId("u", a.user),
                externalId |-> data.externalId,
                eoaAddress |-> data.eoaAddress,
                encryptedPrivateKey |-> data.encryptedPrivateKey,
                keyIv |-> data.keyIv,
                keyAuthTag |-> data.keyAuthTag,
                safeAddress |-> None,
                safeDeployed |-> FALSE,
                clobApiKeyCreated |-> FALSE,
                approvalsGranted |-> FALSE,
                createdAt |-> NewDate,
                updatedAt |-> NewDate]
    IN  IF RowsWhere(a.user, "externalId", data.externalId) # {}
        THEN Outcome(a, Thrown("Unique constraint failed on the fields: (externalId)"))
        ELSE Outcome([a EXCEPT !.user = MapSet(@, row.id, row)], Returned(Some(row)))

\* postgres.ts lines 96-98
PostgresAdapter_getUserById(a, id) == Outcome(a, Returned(MapGet(a.user, id)))

\* postgres.ts lines 100-102
PostgresAdapter_getUserByExternalId(a, externalId) ==
    LET ids == RowsWhere(a.user, "externalId", externalId)
    IN  Outcome(a, Returned(IF ids = {} THEN None
                            ELSE Some(a.user[CHOOSE id \in ids : TRUE])))

\* postgres.ts lines 104-109
PostgresAdapter_updateUser(a, id, data) ==
    IF id \notin DOMAIN a.user
    THEN Outcome(a, Thrown("Record to update not found"))
    ELSE LET updated == [Spread(a.user[id], data) EXCEPT !.updatedAt = NewDate]
         IN  Outcome([a EXCEPT !.user = MapSet(@, id, updated)], Returned(Some(updated)))

\* postgres.ts lines 115-125: keyHash is unique, userId refers to a user
PostgresAdapter_createApiKey(a, userId, data) ==
    LET row == [id |-> FreshId("k", a.userApiKey),
                userId |-> userId,
                name |-> data.name,
                keyHash |-> data.keyHash,
                keyPrefix |-> data.keyPrefix,
                apiSecret |-> data.apiSecret,
                createdAt |-> NewDate,
                lastUsedAt |-> None,
                revokedAt |-> None]
    IN  IF userId \notin DOMAIN a.user
        THEN Outcome(a, Thrown("Foreign key constraint failed on the field: userId"))
        ELSE IF RowsWhere(a.userApiKey, "keyHash", data.keyHash) # {}
        THEN Outcome(a, Thrown("Unique constraint failed on the fields: (keyHash)"))
        ELSE Outcome([a EXCEPT !.userApiKey = MapSet(@, row.id, row)],
                     Returned(Some(row)))

\* postgres.ts lines 127-132: include: { user: true }
PostgresAdapter_getApiKeyByHash(a, hash) ==
    LET ids == RowsWhere(a.userApiKey, "keyHash", hash)
        row == a.userApiKey[CHOOSE id \in ids : TRUE]
    IN  Outcome(a, Returned(IF ids = {} THEN None
                            ELSE Some(Spread(row, [user |-> a.user[row.userId]]))))

\* postgres.ts lines 134-139
PostgresAdapter_revokeApiKey(a, id) ==
    IF id \notin DOMAIN a.userApiKey
    THEN Outcome(a, Thrown("Record to update not found"))
    ELSE Outcome([a EXCEPT !.userApiKey[id].revokedAt = NewDate], Returned(None))

IsMemory == db.kind = "memory"

\* the user records the adapter holds, by id
Users == IF IsMemory THEN db.users ELSE db.user
\* the API key records the adapter holds, by id
ApiKeys == IF IsMemory THEN db.apiKeys ELSE db.userApiKey

\* the adapter takes the outcome of a method, and the caller its result
Apply(op, outcome) ==
    /\ db' = outcome.db
    /\ ret' = [op |-> op, result |-> outcome.result]

\* the methods of the DatabaseAdapter in use
createUser(data) ==
    IF IsMemory THEN InMemoryAdapter_createUser(db, data)
    ELSE PostgresAdapter_createUser(db, data)
getUserById(id) ==
    IF IsMemory THEN InMemoryAdapter_getUserById(db, id)
    ELSE PostgresAdapter_getUserById(db, id)
getUserByExternalId(externalId) ==
    IF IsMemory THEN InMemoryAdapter_getUserByExternalId(db, externalId)
    ELSE PostgresAdapter_getUserByExternalId(db, externalId)
updateUser(id, data) ==
    IF IsMemory THEN InMemoryAdapter_updateUser(db, id, data)
    ELSE PostgresAdapter_updateUser(db, id, data)
createApiKey(userId, data) ==
    IF IsMemory THEN InMemoryAdapter_createApiKey(db, userId, data)
    ELSE PostgresAdapter_createApiKey(db, userId, data)
getApiKeyByHash(hash) ==
    IF IsMemory THEN InMemoryAdapter_getApiKeyByHash(db, hash)
    ELSE PostgresAdapter_getApiKeyByHash(db, hash)
revokeApiKey(id) ==
    IF IsMemory THEN InMemoryAdapter_revokeApiKey(db, id)
    ELSE PostgresAdapter_revokeApiKey(db, id)

CreateUser(data) ==
    /\ Cardinality(DOMAIN Users) < MaxUsers
    /\ Apply("createUser", createUser(data))
    /\ UNCHANGED <<vaults, blob, origin, out, hm, calls, posts, wire, clock, client, chain, keys, addr>>

UpdateUser(id, data) ==
    /\ Apply("updateUser", updateUser(id, data))
    /\ UNCHANGED <<vaults, blob, origin, out, hm, calls, posts, wire, clock, client, chain, keys, addr>>

\* every result generateApiKey can give here
IssuableKeys ==
    {generateApiKey(prefix, RandomKeyBytes(n)) :
        prefix \in PrefixArguments, n \in 1..NumRandomKeys}

\* the keys whose record has been stored
StoredKeys == {k \in keys : getApiKeyByHash(k.keyHash).result.value.some}

\* generateApiKey(prefix) returns k to the caller; keys are issued one at a
\* time, each stored before the next is generated
GenerateApiKey(k) ==
    /\ keys = StoredKeys
    /\ Cardinality(keys) < MaxApiKeys
    /\ keys' = keys \cup {k}
    /\ ret' = [op |-> "generateApiKey", result |-> Returned(Some(k))]
    /\ UNCHANGED <<vaults, blob, origin, out, hm, calls, posts, wire, clock, client, chain, db, addr>>

\* the name and the HMAC secret an API key is created with
KeyOptions == {[name |-> None, apiSecret |-> None],
               [name |-> Some("trading bot"), apiSecret |-> Some(SignerSecret)]}

\* CreateApiKeyInput for a key generateApiKey returned
CreateApiKeyInput(k, options) ==
    [name |-> options.name, keyHash |-> k.keyHash, keyPrefix |-> k.keyPrefix,
     apiSecret |-> options.apiSecret]

CreateApiKey(userId, data) ==
    /\ Cardinality(DOMAIN ApiKeys) < MaxKeyRecords
    /\ Apply("createApiKey", createApiKey(userId, data))
    /\ UNCHANGED <<vaults, blob, origin, out, hm, calls, posts, wire, clock, client, chain, keys, addr>>

RevokeApiKey(id) ==
    /\ Apply("revokeApiKey", revokeApiKey(id))
    /\ UNCHANGED <<vaults, blob, origin, out, hm, calls, posts, wire, clock, client, chain, keys, addr>>

\* a && b
And(a, b) == IF a THEN b ELSE a

\* postgres.ts lines 389-399: the body of GET /v1/wallet/status for req.user
WalletStatus(user) ==
    [isSetup |-> And(And(user.safeDeployed, user.clobApiKeyCreated),
                     user.approvalsGranted),
     eoaAddress |-> user.eoaAddress,
     safeAddress |-> user.safeAddress,
     safeDeployed |-> user.safeDeployed,
     clobApiKeyCreated |-> user.clobApiKeyCreated,
     approvalsGranted |-> user.approvalsGranted]

UserIds == {"u" \o ToString(n) : n \in 1..MaxUsers}
ApiKeyIds == {"k" \o ToString(n) : n \in 1..MaxApiKeys}

\* an adapter is connected and holds nothing yet
StoreInit ==
    /\ vaults = [v \in VaultIds |-> NoVault]
    /\ blob = NoBlob
    /\ origin = NoBlob
    /\ out = NoOut
    /\ hm = HmIdle
    /\ calls = NoCalls
    /\ posts = <<>>
    /\ wire = {}
    /\ clock = 0
    /\ client = NoClient
    /\ chain = {}
    /\ db \in {NewInMemoryAdapter, NewPostgresAdapter}
    /\ keys = {}
    /\ ret = NoRet
    /\ addr = NoAddr

\* users are created and taken through wallet setup
UserNext ==
    \/ \E data \in CreateUserInputs : CreateUser(data)
    \/ \E id \in UserIds, data \in UserPatches : UpdateUser(id, data)

UserSpec == StoreInit /\ [][UserNext]_vars

\* the users that own API keys
MaxKeyOwners == 1
KeyOwnerInputs == {CreateUserInput(DeployedAccount)}
KeyOwnerPatches == {[safeDeployed |-> TRUE]}

\* API keys are issued to users, looked up and revoked
KeyNext ==
    \/ \E data \in KeyOwnerInputs :
            Cardinality(DOMAIN Users) < MaxKeyOwners /\ CreateUser(data)
    \/ \E id \in DOMAIN Users, data \in KeyOwnerPatches : UpdateUser(id, data)
    \/ \E k \in IssuableKeys : GenerateApiKey(k)
    \/ \E id \in UserIds, k \in keys \ StoredKeys, options \in KeyOptions :
            CreateApiKey(id, CreateApiKeyInput(k, options))
    \/ \E id \in ApiKeyIds : RevokeApiKey(id)

KeySpec == StoreInit /\ [][KeyNext]_vars

(***************************************************************************)
(* The authentication middleware of /v1                                    *)
(***************************************************************************)
\* the API key the requests bear
AuthKey == generateApiKey(None, RandomKeyBytes(1))
UnknownKey == "qnt_unknown"

\* ToBoolean of a header holding a signature: undefined and "" are falsy
TruthyText(o) == o.some /\ Len(o.v) > 0

\* res.status(401).json({ error })
Respond(status, error) == [next |-> FALSE, status |-> status, error |-> error]
\* next(), with req.user and req.userId attached
CallNext(user) == [next |-> TRUE, user |-> user, userId |-> user.id]

\* postgres.ts lines 338-378
authenticate(req) ==
    LET apiKey == req.apiKey
        timestamp == req.timestamp
        signature == req.signature
        keyHash == hashApiKey(apiKey.v)
        keyRecord == getApiKeyByHash(keyHash).result.value
        result == verifyHmacSignature(signature.v,
                                      Envelope(parseInt(timestamp), req.method,
                                               req.path, req.body),
                                      keyRecord.v.apiSecret.v,
                                      DefaultValidityWindowSeconds, NowMs + clock)
    IN  IF ~TruthyString(apiKey) THEN Respond(401, "API key required")
        ELSE IF ~keyRecord.some \/ keyRecord.v.revokedAt.some
        THEN Respond(401, "Invalid API key")
        ELSE IF TruthyString(keyRecord.v.apiSecret) /\ TruthyText(signature)
                    /\ ~result.valid
        THEN Respond(401, "Invalid signature")
        ELSE CallNext(keyRecord.v.user)

\* the request a client signs: GET /v1/a now, express.json() giving {} for
\* the body
AuthEnvelope == Envelope(Num(NowMs), "GET", "/v1/a", JsonObject("{}"))
SignatureHeaders ==
    {None, Some(<<>>)}
        \cup {Some(createHmacSignature(WithSecret(AuthEnvelope, secret))) : secret \in Secrets}
AuthRequests ==
    {[apiKey |-> k, timestamp |-> Header(DecimalChars(NowMs)), signature |-> sg,
      method |-> AuthEnvelope.method, path |-> AuthEnvelope.path,
      body |-> AuthEnvelope.body] :
        k \in {None, Some(UnknownKey), Some(AuthKey.key)}, sg \in SignatureHeaders}

\* a request reaches app.use('/v1', authenticate)
Request(req) ==
    /\ ret' = [op |-> "request", req |-> req, result |-> authenticate(req)]
    /\ UNCHANGED <<vaults, blob, origin, out, hm, calls, posts, wire, clock, client, chain, db, keys, addr>>

\* an adapter is connected and a key has been generated for a user
AuthInit ==
    /\ vaults = [v \in VaultIds |-> NoVault]
    /\ blob = NoBlob
    /\ origin = NoBlob
    /\ out = NoOut
    /\ hm = HmIdle
    /\ calls = NoCalls
    /\ posts = <<>>
    /\ wire = {}
    /\ clock = 0
    /\ client = NoClient
    /\ chain = {}
    /\ db \in {NewInMemoryAdapter, NewPostgresAdapter}
    /\ keys = {AuthKey}
    /\ ret = NoRet
    /\ addr = NoAddr

\* key records are stored and revoked while requests come in
AuthNext ==
    \/ \E data \in KeyOwnerInputs :
            Cardinality(DOMAIN Users) < MaxKeyOwners /\ CreateUser(data)
    \/ \E id \in DOMAIN Users, data \in KeyOwnerPatches : UpdateUser(id, data)
    \/ \E id \in DOMAIN Users, options \in KeyOptions :
            CreateApiKey(id, CreateApiKeyInput(AuthKey, options))
    \/ \E id \in DOMAIN ApiKeys : RevokeApiKey(id)
    \/ \E req \in AuthRequests : Request(req)

AuthSpec == AuthInit /\ [][AuthNext]_vars

(***************************************************************************)
(* Safe address derivation: calculateSafeAddress and predictSafeAddress    *)
(*                                                                         *)
(* Byte strings are their hex text without the 0x.  keccak256 is kept      *)
(* symbolic: the digest of b is the text "keccak(b)", so that two digests  *)
(* are equal exactly when their inputs are.                                *)
(***************************************************************************)
NumOwners == 2
MaxDerivations == 2

Zeros(n) == JoinRange([j \in 1..n |-> "0"], 1, n)

RECURSIVE NatHex(_)
NatHex(n) ==
    IF n < 16 THEN SubSeq(HexDigits, n + 1, n + 1)
    ELSE NatHex(n \div 16) \o SubSeq(HexDigits, (n % 16) + 1, (n % 16) + 1)

LowerHexDigit(ch) ==
    CASE ch = "A" -> "a" [] ch = "B" -> "b" [] ch = "C" -> "c"
      [] ch = "D" -> "d" [] ch = "E" -> "e" [] ch = "F" -> "f"
      [] OTHER -> ch

\* the bytes a hex string stands for: no 0x, no letter case
arrayify(hex) ==
    JoinRange([j \in 1..(Len(hex) - 2) |-> LowerHexDigit(SubSeq(hex, j + 2, j + 2))],
              1, Len(hex) - 2)

hexlify(b) == "0x" \o b

\* a value left-padded to a 32-byte word
zeroPad32(b) == Zeros(64 - Len(b)) \o b
Uint256(n) == zeroPad32(NatHex(n))
AddressWord(address) == zeroPad32(arrayify(address))

AddressZero == "0x0000000000000000000000000000000000000000"
OwnerAddress(n) == "0x" \o Zeros(38) \o "a" \o ToString(n)
OwnerAddresses == {OwnerAddress(n) : n \in 1..NumOwners}
OtherProxyFactory == "0xa6B71E26C5e0845f74c812102Ca7114b6a896AB2"
SafeSingleton == "0x69f4D1788e39c87893C980c06EdF4b7f686e2938"
OtherSingleton == "0xd9Db270c1B5E3Bd161E8c8503c55cEABeE709552"
FactoryArguments == {None, Some(OtherProxyFactory)}
SingletonArguments == {None, Some(OtherSingleton)}

\* a parameter with a default value
OrDefault(arg, default) == IF arg.some THEN arg.v ELSE default

keccak256(b) == "keccak(" \o b \o ")"

\* the head and tail of (address[] [owner], uint256 1, address 0, bytes 0x,
\* address 0, address 0, uint256 0, address 0): the array starts after the
\* 8 head words, the empty bytes after the array's 2 words
SetupParameters(owner) ==
    Uint256(8 * 32) \o Uint256(1) \o AddressWord(AddressZero)
        \o Uint256(8 * 32 + 2 * 32)
        \o AddressWord(AddressZero) \o AddressWord(AddressZero)
        \o Uint256(0) \o AddressWord(AddressZero)
        \o Uint256(1) \o AddressWord(owner)
        \o Uint256(0)

\* the first 4 bytes of keccak256 of
\* "setup(address[],uint256,address,bytes,address,address,uint256,address)"
SetupSelector == "b63e800d"

\* Interface.encodeFunctionData('setup', [...])
encodeFunctionData(owner) == SetupSelector \o SetupParameters(owner)

\* defaultAbiCoder.encode([...], [...])
defaultAbiCoder_encode(owner) == SetupParameters(owner)

\* the start of the proxy creation bytecode, the same literal in both routines
ProxyCreationCode == "608060405234801561001057600080fd5b50"

\* solidityPack(['bytes32', 'uint256'], [hash, nonce])
PackHashNonce(hash, nonce) == hash \o Uint256(nonce)
\* solidityPack(['bytes', 'uint256'], [code, singleton])
PackCodeSingleton(code, singleton) == code \o AddressWord(singleton)

\* getCreate2Address: the last 20 bytes of keccak256(0xff ++ from ++ salt ++
\* initCodeHash)
getCreate2Address(from, salt, initCodeHash) ==
    hexlify("last20(" \o keccak256("ff" \o arrayify(from) \o salt \o initCodeHash) \o ")")

calculateSafeAddress(ownerAddress, proxyFactoryArg, singletonArg) ==
    LET proxyFactory == OrDefault(proxyFactoryArg, SafeProxyFactory)
        singleton == OrDefault(singletonArg, SafeSingleton)
        setupData == encodeFunctionData(ownerAddress)
        saltNonce == 0
        salt == keccak256(PackHashNonce(keccak256(setupData), saltNonce))
        initCode == PackCodeSingleton(ProxyCreationCode, singleton)
    IN  getCreate2Address(proxyFactory, salt, keccak256(initCode))

predictSafeAddress(eoaAddress, safeProxyFactoryArg, safeSingletonArg) ==
    LET safeProxyFactory == OrDefault(safeProxyFactoryArg, SafeProxyFactory)
        safeSingleton == OrDefault(safeSingletonArg, SafeSingleton)
        initializerData == defaultAbiCoder_encode(eoaAddress)
        salt == keccak256(PackHashNonce(keccak256(initializerData), 0))
        proxyCreationCode == PackCodeSingleton(ProxyCreationCode, safeSingleton)
    IN  getCreate2Address(safeProxyFactory, salt, keccak256(proxyCreationCode))

Derivation(routine, owner, factory, singleton, result) ==
    [routine |-> routine, owner |-> owner, factory |-> factory,
     singleton |-> singleton, result |-> result]

CalculateSafeAddress(owner, factory, singleton) ==
    /\ Len(addr) < MaxDerivations
    /\ addr' = Append(addr, Derivation("calculateSafeAddress", owner, factory, singleton,
                                       calculateSafeAddress(owner, factory, singleton)))
    /\ UNCHANGED <<vaults, blob, origin, out, hm, calls, posts, wire, clock,
                   client, chain, db, keys, ret>>

PredictSafeAddress(owner, factory, singleton) ==
    /\ Len(addr) < MaxDerivations
    /\ addr' = Append(addr, Derivation("predictSafeAddress", owner, factory, singleton,
                                       predictSafeAddress(owner, factory, singleton)))
    /\ UNCHANGED <<vaults, blob, origin, out, hm, calls, posts, wire, clock,
                   client, chain, db, keys, ret>>

DeriveNext ==
    \E owner \in OwnerAddresses, factory \in FactoryArguments,
       singleton \in SingletonArguments :
        \/ CalculateSafeAddress(owner, factory, singleton)
        \/ PredictSafeAddress(owner, factory, singleton)

DeriveSpec == RelayInit /\ [][DeriveNext]_vars

(***************************************************************************)
(* SAFE-TX signatures: buildSafeTransaction and createApprovalSignatures   *)
(*                                                                         *)
(* A signature is kept symbolic, as keccak256 is: the text                 *)
(* "sign(signer,digest)", the same for the same signer and digest.         *)
(***************************************************************************)
CtfExchange == "0x4bFb41d5B3570DeFd03C39a9A4D8dE6Bd8B8982E"
NegRiskAdapter == "0xd91E80cF2E7be2e162c6513ceD06f1dD0dA35296"
NegRiskCtfExchange == "0xC5d563A36AE78145C45a50134d48A1215220f80a"
ConditionalTokens == "0x4D97DCd97eC945f40cF65F87097ACe5EA0476045"

\* the contracts argument: each address given or left out
ContractSets ==
    [usdc : {None, Some(UsdcAddress)},
     ctfExchange : {None, Some(CtfExchange)},
     negRiskCtfExchange : {None, Some(NegRiskCtfExchange)},
     negRiskAdapter : {None, Some(NegRiskAdapter)},
     conditionalTokens : {None, Some(ConditionalTokens)}]

\* POLYGON_CONTRACTS, as far as createApprovalSignatures reads it
PolygonContracts ==
    [usdc |-> Some(UsdcAddress), ctfExchange |-> Some(CtfExchange),
     negRiskCtfExchange |-> Some(NegRiskCtfExchange),
     negRiskAdapter |-> Some(NegRiskAdapter),
     conditionalTokens |-> Some(ConditionalTokens)]

\* ethers.constants.MaxUint256 as a 32-byte word
MaxUint256Word == JoinRange([j \in 1..64 |-> "f"], 1, 64)

\* the first 4 bytes of keccak256 of "approve(address,uint256)"
ApproveSelector == "095ea7b3"

\* Interface.encodeFunctionData('approve', [spender, MaxUint256])
encodeApprove(spender) ==
    hexlify(ApproveSelector \o AddressWord(spender) \o MaxUint256Word)

\* the UTF-8 bytes of 'SAFE-TX'
SafeTxTag == "534146452d5458"

\* solidityKeccak256(['string', 'address', 'address', 'bytes'],
\*                   ['SAFE-TX', safeAddress, to, data])
SafeTxHash(safeAddress, to, data) ==
    keccak256(SafeTxTag \o arrayify(safeAddress) \o arrayify(to) \o arrayify(data))

\* signer.signMessage(bytes): the signature of the EIP-191 digest of the
\* 32 bytes
signMessage(signer, bytes) ==
    hexlify("sign(" \o arrayify(signer) \o ","
                \o keccak256("19457468657265756d205369676e6564204d6573736167653a0a3332"
                                \o bytes) \o ")")

\* part_003 lines 170-190
buildSafeTransaction(signer, safeAddress, to, data) ==
    LET messageHash == SafeTxHash(safeAddress, to, data)
        signature == signMessage(signer, messageHash)
    IN  SafeTransaction(signer, to, safeAddress, data, signature)

\* part_003 lines 121-157
createApprovalSignatures(signer, safeAddress, contracts) ==
    IF TruthyString(contracts.usdc) /\ TruthyString(contracts.ctfExchange)
    THEN LET approveData == encodeApprove(contracts.ctfExchange.v)
             messageHash == SafeTxHash(safeAddress, contracts.usdc.v, approveData)
         IN  [usdcApproval |-> signMessage(signer, messageHash)]
    ELSE EmptyMap

\* createApprovalSignatures is called for a signer and its Safe
CreateApprovalSignatures(signer, safeAddress, contracts) ==
    /\ ret' = [op |-> "createApprovalSignatures", signer |-> signer,
               safeAddress |-> safeAddress, contracts |-> contracts,
               result |-> createApprovalSignatures(signer, safeAddress, contracts)]
    /\ UNCHANGED <<vaults, blob, origin, out, hm, calls, posts, wire, clock, client, chain, db, keys, addr>>

\* the Safe addresses derived for the owners
SafeAddresses == {calculateSafeAddress(o, None, None) : o \in OwnerAddresses}

ApprovalNext ==
    \E signer \in OwnerAddresses, safeAddress \in SafeAddresses,
       contracts \in ContractSets :
        CreateApprovalSignatures(signer, safeAddress, contracts)

ApprovalSpec == RelayInit /\ [][ApprovalNext]_vars

(***************************************************************************)
(* KeyVault properties                                                     *)
(***************************************************************************)
\* a string without unpaired surrogates
RECURSIVE WellFormed(_)
WellFormed(s) ==
    IF s = <<>> THEN TRUE
    ELSE IF IsHighSurrogate(s[1]) THEN
        Len(s) >= 2 /\ IsLowSurrogate(s[2]) /\ WellFormed(SubSeq(s, 3, Len(s)))
    ELSE IF IsLowSurrogate(s[1]) THEN FALSE
    ELSE WellFormed(Tail(s))

Decrypted == blob.present /\ out # NoOut

\* the vault that encrypted decrypts the blob exactly as encrypt returned it
OwnUntampered == Decrypted /\ blob.data = origin.data /\ out.by = origin.vault

\* C1 as stated: decrypt(encrypt(P)) on the same vault returns exactly P,
\* for every string P
C1_RoundTripEveryString ==
    OwnUntampered => (~out.threw /\ out.value = origin.plaintext)

\* C1 amended: decrypt(encrypt(P)) on the same vault returns exactly P for
\* every string P without an unpaired surrogate (the empty string included)
C1_RoundTripWellFormed ==
    (OwnUntampered /\ WellFormed(origin.plaintext))
        => (~out.threw /\ out.value = origin.plaintext)

C1_Witness ==
    /\ OwnUntampered
    /\ Len(origin.plaintext) = 2
    /\ IsHighSurrogate(origin.plaintext[1])
    /\ WellFormed(origin.plaintext)
    /\ out.value = origin.plaintext

\* the bytes the blob decodes to differ from those encrypt returned
IvDiffers == Base64Decode(blob.data.iv) # Base64Decode(origin.data.iv)
CiphertextDiffers ==
    Base64Decode(blob.data.encrypted) # Base64Decode(origin.data.encrypted)
TagDiffers == blob.data.authTag # origin.data.authTag
WrongKey == vaults[out.by].masterKey # vaults[origin.vault].masterKey

\* C2: decrypt of a blob whose tag, ciphertext or iv bytes differ from what
\* encrypt returned, or by a vault holding another master key, ends in an
\* error and returns no plaintext
C2_TamperFailsClosed ==
    (Decrypted /\ (IvDiffers \/ CiphertextDiffers \/ TagDiffers \/ WrongKey))
        => (out.threw /\ out.value = <<>>)

C2_Witness ==
    /\ Decrypted
    /\ CiphertextDiffers
    /\ Len(origin.plaintext) > 0
    /\ ~WrongKey
    /\ out.threw

\* what the claim calls a key that parses to exactly 32 bytes
ParsesTo32Bytes(input) ==
    \/ input.kind = "buffer" /\ Len(input.bytes) = 32
    \/ /\ input.kind = "string"
       /\ \/ Len(input.chars) = 64 /\ AllHex(input.chars)
          \/ Len(Base64Decode(input.chars)) = 32

HexAndBase64OfOneKey ==
    \E n \in 1..NumKeys :
        {vaults[1].input, vaults[2].input}
            = {StringInput(HexEncode(KeyBytes(n))), StringInput(Base64Encode(KeyBytes(n)))}

\* C4: construction fails for every master key that does not parse to exactly
\* 32 bytes, every constructed vault holds 32 bytes, and vaults built from the
\* hex and the base64 text of the same 32 bytes decrypt each other's blobs
C4_KeyIs32Bytes ==
    /\ \A v \in VaultIds :
          /\ vaults[v].state # "none" => (VaultOk(v) <=> ParsesTo32Bytes(vaults[v].input))
          /\ VaultOk(v) => Len(vaults[v].masterKey) = 32
    /\ ( /\ Decrypted
         /\ blob.data = origin.data
         /\ out.by # origin.vault
         /\ HexAndBase64OfOneKey )
       => ( /\ ~out.threw
            /\ WellFormed(origin.plaintext) => out.value = origin.plaintext )

C4_Witness ==
    /\ Decrypted
    /\ blob.data = origin.data
    /\ out.by # origin.vault
    /\ HexAndBase64OfOneKey
    /\ Len(origin.plaintext) > 0
    /\ out.value = origin.plaintext


(***************************************************************************)
(* HMAC properties                                                         *)
(***************************************************************************)
Verified == hm.pc = "verified"

\* |now - timestamp| <= windowSeconds * 1000, as the claims state it
WithinWindow(now, timestamp, windowSeconds) ==
    /\ ~timestamp.nan
    /\ now - timestamp.v <= windowSeconds * 1000
    /\ timestamp.v - now <= windowSeconds * 1000

OutsideWindow(now, timestamp, windowSeconds) ==
    /\ ~timestamp.nan
    /\ \/ now - timestamp.v > windowSeconds * 1000
       \/ timestamp.v - now > windowSeconds * 1000

\* the verifier was handed the signature of exactly the envelope and secret
\* it verifies against
PresentedAsSigned ==
    /\ hm.presented.signature = hm.sig
    /\ WithSecret(hm.presented.input, hm.presented.secret) = hm.input

\* C5: verify(sign(input, secret), input, secret, window) is valid whenever
\* |now - timestamp| <= window * 1000, the boundary included, for timestamps
\* in the past and in the future
C5_SignThenVerifyValid ==
    ( /\ Verified
      /\ PresentedAsSigned
      /\ WithinWindow(NowMs, hm.presented.input.timestamp, hm.window) )
        => hm.res.valid

C5_Witness ==
    /\ Verified
    /\ PresentedAsSigned
    /\ hm.presented.input.timestamp = Num(NowMs + 30000)
    /\ hm.window = 30
    /\ hm.res.valid

\* the bytes of the presented signature are the bytes of the signature
\* recomputed from the verifier's (timestamp, method, path, body, secret)
SignatureBytesMatch ==
    Base64Decode(hm.presented.signature)
        = HmacSha256(hm.presented.secret, CanonicalMessage(hm.presented.input))

\* C6: verify returns valid only if the presented signature is the recomputed
\* one and |now - timestamp| <= window * 1000, for every timestamp the
\* verifier can be handed, the middleware's parse of an absent or
\* non-numeric header included
C6_ValidOnlyIfMatchingAndInWindow ==
    (Verified /\ hm.res.valid)
        => ( /\ SignatureBytesMatch
             /\ WithinWindow(NowMs, hm.presented.input.timestamp, hm.window) )

\* C7: an envelope whose timestamp is outside the window is rejected with the
\* expired reason, whatever its signature: the expiry check comes before the
\* length and the mismatch checks
C7_ExpiredFirst ==
    (Verified /\ OutsideWindow(NowMs, hm.presented.input.timestamp, hm.window))
        => (~hm.res.valid /\ hm.res.reason = "Request timestamp expired")

C7_Witness ==
    /\ Verified
    /\ hm.presented.change.kind = "char"
    /\ Len(Base64Decode(hm.presented.signature)) # DigestLength
    /\ hm.presented.input.timestamp = Num(NowMs - 30001)
    /\ hm.window = 30
    /\ hm.res.reason = "Request timestamp expired"

\* a valid signature of an in-window envelope, with one bit changed
FlippedInWindow(kind) ==
    /\ Verified
    /\ hm.presented.change.kind = kind
    /\ WithinWindow(NowMs, hm.presented.input.timestamp, hm.window)

\* C8 as stated: the string obtained from a valid signature string by
\* flipping a single bit, at any position, is rejected
C8_EveryFlippedStringRejected ==
    FlippedInWindow("char") => ~hm.res.valid

\* C8 amended: flipping a single bit of the 32 signature bytes is rejected;
\* flipping a single bit of the base64 text is rejected exactly when the text
\* then decodes to other bytes than the signature's
C8_FlippedBytesRejected ==
    /\ FlippedInWindow("byte") => ~hm.res.valid
    /\ FlippedInWindow("char")
          => (hm.res.valid <=> Base64Decode(hm.presented.signature) = Base64Decode(hm.sig))

C8_Witness ==
    /\ FlippedInWindow("byte")
    /\ hm.presented.change.pos = DigestLength
    /\ hm.presented.change.bit = 0
    /\ hm.res.reason = "Signature mismatch"


(***************************************************************************)
(* RelayerClient properties                                                *)
(***************************************************************************)
Done(c) == calls[c].pc = "done"

\* C9: relay() never throws or rejects: whatever the outcome of the HTTP
\* exchange, the promise it returned resolves to a RelayerResponse record
C9_RelayNeverRejects ==
    \A c \in CallIds :
        /\ calls[c].promise.state # "rejected"
        /\ Done(c) => /\ calls[c].promise.state = "resolved"
                      /\ calls[c].promise.value.success \in BOOLEAN
                      /\ ~calls[c].promise.value.success
                            => calls[c].promise.value.error.some

C9_Witness ==
    \E c \in CallIds :
        /\ Done(c)
        /\ calls[c].status = 200
        /\ calls[c].promise.state = "resolved"
        /\ calls[c].promise.value = Failure("Cannot read properties of null")

\* C10: every result of relay() is terminal: success implies a txHash is
\* present, failure implies an error is present and no txHash
C10_ResultNeverPartial ==
    \A c \in CallIds :
        Done(c) =>
            LET r == calls[c].promise.value
            IN  /\ r.success => r.txHash.some
                /\ ~r.success => (r.error.some /\ ~r.txHash.some)

\* s occurs in t
Contains(t, s) ==
    \E i \in 1..(Len(t) - Len(s) + 1) : SubSeq(t, i, i + Len(s) - 1) = s

\* the timeout the configuration asks for: config.timeout, and 30000 ms when
\* none is configured (undefined, or 0)
ConfiguredTimeout ==
    IF client.config.timeout.some /\ client.config.timeout.v > 0
    THEN client.config.timeout.v
    ELSE 30000

Pending(c) == calls[c].pc \in {"fetching", "text", "json"}

C12_ErrorNamesStatusAndBody ==
    \A c \in CallIds :
        (Done(c) /\ calls[c].status # 0 /\ ~ResponseOk(calls[c].status)
                 /\ calls[c].text.some)
            => /\ calls[c].promise.state = "resolved"
               /\ ~calls[c].promise.value.success
               /\ ~calls[c].promise.value.txHash.some
               /\ calls[c].promise.value.error.some
               /\ Contains(calls[c].promise.value.error.v,
                           ToString(calls[c].status) \o " - " \o calls[c].text.v)

C12_Witness ==
    \E c \in CallIds :
        /\ Done(c)
        /\ calls[c].status = 500
        /\ calls[c].text = Some("")
        /\ calls[c].promise.value.error = Some("Relayer error: 500 - ")

NotSerialized(c) ==
    /\ Done(c)
    /\ calls[c].promise.state = "resolved"
    /\ calls[c].promise.value = Failure("Do not know how to serialize")

\* C13 as stated: every call of relay(), whatever its outcome, has issued
\* exactly one POST
C13_ExactlyOnePost ==
    \A c \in CallIds : calls[c].pc # "idle" => posts[c] = 1

\* C13 amended: a call issues at most one POST: exactly one once its request
\* has been serialised, whatever the outcome, and none when serialising the
\* request threw
C13_OnePostUnlessNotSerialized ==
    \A c \in CallIds :
        /\ posts[c] <= 1
        /\ calls[c].pc # "idle"
              => posts[c] = IF NotSerialized(c) THEN 0 ELSE 1

C13_Witness ==
    \E c \in CallIds :
        /\ Done(c)
        /\ calls[c].aborted
        /\ calls[c].promise.value = Failure(AbortMessage)
        /\ posts[c] = 1

\* C14: no deployment request is submitted to the relayer for an account
\* whose Safe address already holds bytecode
C14_DeployedSafeNotResubmitted ==
    \A a \in Accounts :
        isContractDeployed(Safe(a))
            => DeploySafeTransaction(DeployParams(a)) \notin wire

\* C20: at whatever stage the endpoint stalls, a call is never pending after
\* the configured timeout has elapsed since relay() was called
C20_TimeoutBoundsWholeCall ==
    \A c \in CallIds :
        Pending(c) => clock <= calls[c].startedAt + ConfiguredTimeout

(***************************************************************************)
(* Adapter and API key properties                                          *)
(***************************************************************************)
\* C15: every stored user record is at a stage of the wallet setup:
\* approvalsGranted implies clobApiKeyCreated, clobApiKeyCreated implies
\* safeDeployed, safeDeployed implies a safeAddress; and the status route
\* reports isSetup exactly when the three flags are set
C15_SetupInOrder ==
    \A id \in DOMAIN Users :
        LET u == Users[id]
        IN  /\ u.approvalsGranted => u.clobApiKeyCreated
            /\ u.clobApiKeyCreated => u.safeDeployed
            /\ u.safeDeployed => u.safeAddress.some
            /\ WalletStatus(u).isSetup
                  = (u.safeDeployed /\ u.clobApiKeyCreated /\ u.approvalsGranted)

\* the three EncryptedBlob fields of data are on the user record
HoldsBlob(user, data) ==
    /\ {"encryptedPrivateKey", "keyIv", "keyAuthTag"} \subseteq DOMAIN user
    /\ user.encryptedPrivateKey = data.encryptedPrivateKey
    /\ user.keyIv = data.keyIv
    /\ user.keyAuthTag = data.keyAuthTag

\* C19: the user read back by getUserByExternalId and by getUserById after
\* createUser(data) carries the encryptedPrivateKey, keyIv and keyAuthTag of
\* data, on either adapter
C19_BlobReadBack ==
    \A data \in CreateUserInputs :
        LET byExternalId == getUserByExternalId(data.externalId).result.value
        IN  byExternalId.some
                => /\ HoldsBlob(byExternalId.v, data)
                   /\ HoldsBlob(getUserById(byExternalId.v.id).result.value.v, data)

\* the hashes API key records are stored under
StoredHashes ==
    IF IsMemory THEN DOMAIN db.apiKeysByHash
    ELSE {db.userApiKey[id].keyHash : id \in DOMAIN db.userApiKey}

\* C17: a key generated for prefix p starts with p and "_", its keyPrefix is
\* its first 12 characters, its keyHash is the SHA-256 hex digest of the
\* whole key and equals hashApiKey(key), and once a record is stored under
\* keyHash a lookup by hashApiKey(key) finds it
C17_GeneratedKeyShape ==
    \A prefix \in PrefixArguments, n \in 1..NumRandomKeys :
        LET k == generateApiKey(prefix, RandomKeyBytes(n))
            p == IF prefix.some THEN prefix.v ELSE "qnt"
            found == getApiKeyByHash(hashApiKey(k.key)).result.value
        IN  k \in keys
                => /\ SubSeq(k.key, 1, Len(p) + 1) = p \o "_"
                   /\ Len(k.key) = Len(p) + 1 + 32
                   /\ Len(k.keyPrefix) = 12
                   /\ k.keyPrefix = SubSeq(k.key, 1, 12)
                   /\ Len(k.keyHash) = 64
                   /\ k.keyHash = Sha256Hex(k.key)
                   /\ hashApiKey(k.key) = k.keyHash
                   /\ k.keyHash \in StoredHashes
                        => (found.some /\ found.v.keyPrefix = k.keyPrefix)

C17_Witness ==
    \E k \in keys :
        /\ k = generateApiKey(None, RandomKeyBytes(1))
        /\ k.keyPrefix = "qnt_TFFWW2Bl"
        /\ k.keyHash \in StoredHashes
        /\ getApiKeyByHash(hashApiKey(k.key)).result.value.some

Optional(o) == IF o.some THEN {o.v} ELSE {}

\* the texts held in a user record
UserStrings(u) ==
    {u.id, u.externalId, u.eoaAddress} \cup Optional(u.safeAddress)
        \cup {u[f] : f \in {"encryptedPrivateKey", "keyIv", "keyAuthTag"} \cap DOMAIN u}

\* the texts held in an API key record
ApiKeyStrings(r) ==
    {r.id, r.userId, r.keyPrefix} \cup Optional(r.name) \cup Optional(r.apiSecret)
        \cup {r[f] : f \in {"keyHash"} \cap DOMAIN r}
        \cup UNION {UserStrings(r[f]) : f \in {"user"} \cap DOMAIN r}

\* every text the adapter holds: the fields of its records and the keys of
\* its maps
StoredStrings ==
    IF IsMemory
    THEN UNION {UserStrings(db.users[id]) : id \in DOMAIN db.users}
            \cup UNION {UserStrings(db.usersByExternalId[e]) : e \in DOMAIN db.usersByExternalId}
            \cup UNION {ApiKeyStrings(db.apiKeys[id]) : id \in DOMAIN db.apiKeys}
            \cup DOMAIN db.users \cup DOMAIN db.usersByExternalId
            \cup DOMAIN db.apiKeys \cup DOMAIN db.apiKeysByHash
    ELSE UNION {UserStrings(db.user[id]) : id \in DOMAIN db.user}
            \cup UNION {ApiKeyStrings(db.userApiKey[id]) : id \in DOMAIN db.userApiKey}
            \cup DOMAIN db.user \cup DOMAIN db.userApiKey

\* the texts in what an adapter method returned
ReturnedStrings ==
    IF ret.op \in {"none", "generateApiKey"} \/ ret.result.threw
            \/ ~ret.result.value.some
    THEN {}
    ELSE IF ret.op = "createApiKey" THEN ApiKeyStrings(ret.result.value.v)
    ELSE UserStrings(ret.result.value.v)

\* C18: no text the adapter holds, and none an adapter method returns,
\* contains an issued key; of a key whose record is stored, the hash and the
\* 12-character prefix are what is held
C18_RawKeyNeverStored ==
    \A k \in keys :
        /\ \A str \in StoredStrings \cup ReturnedStrings : ~Contains(str, k.key)
        /\ k.keyHash \in StoredHashes
              => {k.keyHash, k.keyPrefix} \subseteq StoredStrings

C18_Witness ==
    \E k \in keys :
        /\ ~IsMemory
        /\ {k.keyHash, k.keyPrefix} \subseteq StoredStrings
        /\ Some(SignerSecret) \in {ApiKeys[id].apiSecret : id \in DOMAIN ApiKeys}

(***************************************************************************)
(* Address derivation properties                                           *)
(***************************************************************************)
\* the address the derivation formula gives: CREATE2 of the factory, the
\* salt keccak256(keccak256(setupCalldata) ++ uint256(0)) and the hash of
\* proxyCreationBytecode ++ abiEncode(singleton), setupCalldata being the
\* call of setup with its selector
Create2OfSetupCall(owner, factory, singleton) ==
    LET setupCalldata == SetupSelector \o SetupParameters(owner)
        salt == keccak256(keccak256(setupCalldata) \o Uint256(0))
        initCode == ProxyCreationCode \o AddressWord(singleton)
    IN  hexlify("last20(" \o keccak256("ff" \o arrayify(factory) \o salt
                                         \o keccak256(initCode)) \o ")")

\* C16: every address either derivation routine returned is the CREATE2
\* address of the formula for its owner, factory and singleton, and two
\* derivations by one routine from the same inputs returned the same address
C16_DerivationFormula ==
    /\ \A i \in DOMAIN addr :
          addr[i].result
             = Create2OfSetupCall(addr[i].owner,
                                  OrDefault(addr[i].factory, SafeProxyFactory),
                                  OrDefault(addr[i].singleton, SafeSingleton))
    /\ \A i, j \in DOMAIN addr :
          (/\ addr[i].routine = addr[j].routine
           /\ addr[i].owner = addr[j].owner
           /\ addr[i].factory = addr[j].factory
           /\ addr[i].singleton = addr[j].singleton)
             => addr[i].result = addr[j].result

\* C26: for every owner, factory and singleton, given or defaulted,
\* predictSafeAddress and calculateSafeAddress return the same address
C26_RoutinesAgree ==
    \A i \in DOMAIN addr :
        /\ addr[i].result
              = calculateSafeAddress(addr[i].owner, addr[i].factory, addr[i].singleton)
        /\ addr[i].result
              = predictSafeAddress(addr[i].owner, addr[i].factory, addr[i].singleton)

(***************************************************************************)
(* Concurrent relay calls                                                  *)
(***************************************************************************)
\* what a call that is over and was not aborted resolved to follows from the
\* response to its own request
OwnResponseDecides(c) ==
    /\ calls[c].aborted /\ calls[c].promise = Settle(Thrown(AbortMessage))
          => calls[c].timer = Fired
    /\ ~calls[c].aborted /\ calls[c].text.some
          => calls[c].promise = Settle(ErrorResponse(calls[c].status, calls[c].text.v))
    /\ ~calls[c].aborted /\ calls[c].promise.state = "resolved"
            /\ calls[c].promise.value.success
          => ResponseOk(calls[c].status)

\* C21: calls on one client are independent: a call is aborted only when its
\* own timer fired, its result follows from its own response, every step
\* changes the record and the POST count of one call at most, and a settled
\* result never changes
C21_CallsIndependent ==
    /\ [](\A c \in CallIds :
             /\ calls[c].aborted => calls[c].timer = Fired
             /\ Done(c) => OwnResponseDecides(c))
    /\ [][\A c \in CallIds :
             /\ (calls'[c] # calls[c] \/ posts'[c] # posts[c])
                   => \A d \in CallIds \ {c} :
                         calls'[d] = calls[d] /\ posts'[d] = posts[d]
             /\ Done(c) => calls'[c].promise = calls[c].promise]_vars

C21_Witness ==
    \E c, d \in CallIds :
        /\ Done(c) /\ Done(d)
        /\ calls[c].aborted /\ calls[c].promise.value = Failure(AbortMessage)
        /\ ~calls[d].aborted /\ calls[d].timer = Cleared
        /\ calls[d].promise.state = "resolved" /\ calls[d].promise.value.success

(***************************************************************************)
(* Replay of a signed request                                              *)
(***************************************************************************)
\* now is within validityWindowSeconds of the request's timestamp
InWindow(now, timestamp, validityWindowSeconds) ==
    /\ ~timestamp.nan
    /\ now - timestamp.v <= validityWindowSeconds * 1000
    /\ timestamp.v - now <= validityWindowSeconds * 1000

\* C22: a captured signature is accepted every time it is verified within
\* the validity window, however often it was verified before, and two
\* verifications at the same time under the same window give the same result
C22_VerifyKeepsNoState ==
    /\ \A i \in DOMAIN ReplayLog :
          InWindow(ReplayLog[i].at, hm.input.timestamp, ReplayLog[i].window)
              => ReplayLog[i].res = Valid
    /\ \A i, j \in DOMAIN ReplayLog :
          (ReplayLog[i].at = ReplayLog[j].at /\ ReplayLog[i].window = ReplayLog[j].window)
              => ReplayLog[i].res = ReplayLog[j].res

C22_Witness ==
    /\ Len(ReplayLog) = 2
    /\ ReplayLog[1].res = Valid
    /\ ReplayLog[2].res = Valid
    /\ ReplayLog[2].at = NowMs + 30000
    /\ ReplayLog[1].at < ReplayLog[2].at

\* C27: two envelopes that differ in method, path, body or timestamp have
\* different canonical messages
C27_MessageDeterminesRequest ==
    \A i, j \in DOMAIN Signed :
        Signed[i].input # Signed[j].input => Signed[i].message # Signed[j].message

(***************************************************************************)
(* Authentication properties                                               *)
(***************************************************************************)
\* the record stored for the key a request bears
RecordOf(req) == getApiKeyByHash(hashApiKey(req.apiKey.v)).result.value

\* C24: a request goes through for a key whose record has an apiSecret only
\* with a signature that verifyHmacSignature accepts for its method, path,
\* body and timestamp
C24_SecretKeyNeedsSignature ==
    (ret.op = "request" /\ ret.result.next /\ TruthyString(RecordOf(ret.req).v.apiSecret))
        => /\ ret.req.signature.some
           /\ verifyHmacSignature(ret.req.signature.v,
                                  Envelope(parseInt(ret.req.timestamp), ret.req.method,
                                           ret.req.path, ret.req.body),
                                  RecordOf(ret.req).v.apiSecret.v,
                                  DefaultValidityWindowSeconds, NowMs + clock).valid

\* every request bearing the key is answered 401
Rejected(key) ==
    \A req \in AuthRequests :
        req.apiKey = Some(key)
            => ~authenticate(req).next /\ authenticate(req).status = 401

\* a record stored for the key has been revoked
Revoked(k) ==
    \E id \in DOMAIN ApiKeys :
        ApiKeys[id].keyPrefix = k.keyPrefix /\ ApiKeys[id].revokedAt.some

\* C25: a request with no key or an unknown key is answered 401, and once
\* revokeApiKey has completed for a record of a key, every request bearing
\* the key is answered 401, whatever adapter operations came after
C25_RevocationIsPermanent ==
    /\ \A req \in AuthRequests :
          req.apiKey \in {None, Some(UnknownKey)}
              => ~authenticate(req).next /\ authenticate(req).status = 401
    /\ \A k \in keys : Revoked(k) => Rejected(k.key)

\* C28: in InMemoryAdapter the user embedded in the record getApiKeyByHash
\* returns is the user getUserById returns for its userId, and a request
\* that went through carries that user's current setup flags
C28_EmbeddedUserIsCurrent ==
    IsMemory
        => /\ \A h \in DOMAIN db.apiKeysByHash :
                 LET r == getApiKeyByHash(h).result.value.v
                 IN  Some(r.user) = getUserById(r.userId).result.value
           /\ (ret.op = "request" /\ ret.result.next)
                 => WalletStatus(ret.result.user)
                       = WalletStatus(getUserById(ret.result.userId).result.value.v)

(***************************************************************************)
(* Approval signature properties                                           *)
(***************************************************************************)
\* C23: the usdcApproval entry is the signature of the SAFE-TX transaction
\* approve(ctfExchange, MAX_UINT256) sent to usdc, and with every contract
\* address supplied the result has the three entries its type names
C23_ApprovalEntries ==
    ret.op = "createApprovalSignatures"
        => /\ (ret.contracts.usdc.some /\ ret.contracts.ctfExchange.some)
                 => /\ "usdcApproval" \in DOMAIN ret.result
                    /\ ret.result.usdcApproval
                          = buildSafeTransaction(ret.signer, ret.safeAddress,
                                ret.contracts.usdc.v,
                                encodeApprove(ret.contracts.ctfExchange.v)).signature
           /\ ret.contracts = PolygonContracts
                 => {"usdcApproval", "ctfApproval", "conditionalTokensApproval"}
                        \subseteq DOMAIN ret.result

(***************************************************************************)
(* The user indexes of InMemoryAdapter                                     *)
(***************************************************************************)
\* every user object one of the two maps holds
HeldUsers ==
    {db.users[id] : id \in DOMAIN db.users}
        \cup {db.usersByExternalId[e] : e \in DOMAIN db.usersByExternalId}

\* C29: in InMemoryAdapter getUserByExternalId(e) returns u exactly when
\* getUserById(u.id) returns the same u and u.externalId is e
C29_UserIndexesAgree ==
    IsMemory
        => \A data \in CreateUserInputs, u \in HeldUsers :
              (getUserByExternalId(data.externalId).result.value = Some(u))
                  <=> (/\ getUserById(u.id).result.value = Some(u)
                       /\ u.externalId = data.externalId)

=============================================================================
